---------------------------- MODULE Spec2Model ----------------------------
(***************************************************************************)
(* A model of the voice-activity-detection backend:                        *)
(*   - AudioAnalysisService   (src/backend/audio_analysis_service.py)      *)
(*   - UserSession, SocketVADService (src/backend/socket_vad_service.py)   *)
(*   - SileroVADService       (src/backend/silero_vad_service.py)          *)
(*                                                                         *)
(* Representation of the floating point quantities (fixed point):          *)
(*   audio levels, noise_floor, std_dev, thresholds : units of 1/LevelScale*)
(*   sensitivity factor, smoothing factor, weights  : units of 1/FactorScale*)
(*   ratios of two counts (speech_ratio, ensemble_score) : exact pairs     *)
(*   <<numerator, denominator>>, compared by cross multiplication.         *)
(* Time is the wall clock in milliseconds (int(time.time() * 1000)).       *)
(***************************************************************************)
EXTENDS Integers, Sequences, FiniteSets, TLC

VARIABLES
    now,        \* the wall clock, ms
    an,         \* a stand-alone AudioAnalysisService (audio_analysis_service)
    obs,        \* what the last AudioAnalysisService call returned and emitted
    window,     \* the levels submitted since the running calibration started
    belowRun,   \* consecutive classified samples that were not above the threshold
    heap,       \* the UserSession objects ever constructed, by reference 1, 2, ...
    sessions,   \* SocketVADService.sessions: session id -> reference
    silero,     \* the SileroVADService instance
    nUuid,      \* the number of ids uuid4 has generated
    ever,       \* the ids that have been keys of sessions
    out,        \* what the last SocketVADService / UserSession call returned
    threads,    \* the calls in progress: each one's position and local values
    base,       \* the state in which the calls in progress were dispatched
    active_sessions  \* api.active_sessions: session id -> the handlers' bookkeeping

anVars == <<an, obs, window, belowRun>>

regVars == <<heap, sessions, silero, nUuid, ever, out>>

raceVars == <<threads, base>>

apiVars == <<active_sessions>>

vars == <<now, an, obs, window, belowRun, heap, sessions, silero, nUuid, ever, out,
          threads, base, active_sessions>>

---------------------------------------------------------------------------
(* Fixed point scales and the bounds of the model.                         *)

\* 1.0 as an audio level
LevelScale == 10000
\* 1.0 as a factor or weight
FactorScale == 1000

\* the clock stops advancing here
MaxClock == 6000
\* at most this many samples are collected in one calibration window
MaxCalSamples == 5
\* the consecutive-frame counters are not driven beyond this
MaxRun == 3

\* levels a client submits (0.01, 0.3)
Levels == {100, 3000}
\* the clock advances in these steps
TickSteps == {2000}

---------------------------------------------------------------------------
(* Arithmetic helpers.                                                     *)

RECURSIVE SumSeq(_)
SumSeq(s) == IF s = <<>> THEN 0 ELSE Head(s) + SumSeq(Tail(s))

RECURSIVE SumSqSeq(_)
SumSqSeq(s) == IF s = <<>> THEN 0 ELSE Head(s) * Head(s) + SumSqSeq(Tail(s))

RECURSIVE ISqrtBetween(_, _, _)
ISqrtBetween(lo, hi, v) ==
    IF lo >= hi THEN lo
    ELSE LET mid == (lo + hi + 1) \div 2
         IN  IF mid * mid <= v THEN ISqrtBetween(mid, hi, v)
                               ELSE ISqrtBetween(lo, mid - 1, v)

\* the integer square root (levels never exceed 2 * LevelScale)
ISqrt(v) == ISqrtBetween(0, 2 * LevelScale, v)

Abs(x) == IF x < 0 THEN -x ELSE x
Min(x, y) == IF x < y THEN x ELSE y
Max(x, y) == IF x > y THEN x ELSE y

\* statistics.mean
mean(s) == SumSeq(s) \div Len(s)

\* statistics.stdev: the sample standard deviation,
\* sqrt((n * sum(x^2) - sum(x)^2) / (n * (n - 1)))
stdev(s) ==
    LET n == Len(s)
    IN  ISqrt((n * SumSqSeq(s) - SumSeq(s) * SumSeq(s)) \div (n * (n - 1)))

\* s[-k:] for 0 < k
LastK(s, k) == IF Len(s) <= k THEN s ELSE SubSeq(s, Len(s) - k + 1, Len(s))

---------------------------------------------------------------------------
(* AudioAnalysisService                                                    *)

CALIBRATION_START    == "calibration-start"
CALIBRATION_COMPLETE == "calibration-complete"
SPEECH_START         == "speech-start"
SPEECH_END           == "speech-end"
THRESHOLD_CHANGED    == "threshold-changed"

DEFAULT_CONFIG ==
    [ initial_sensitivity_factor    |-> 1500,   \* 1.5
      calibration_duration_ms       |-> 2000,
      recalibration_interval_ms     |-> 5000,
      silence_duration_for_recal_ms |-> 2000,
      max_sample_history            |-> 50,
      smoothing_factor              |-> 100,    \* 0.1
      consecutive_frames_threshold  |-> 2 ]

\* dict.update: the keys of upd replace or extend those of cfg
Merge(cfg, upd) ==
    [k \in (DOMAIN cfg) \cup (DOMAIN upd) |-> IF k \in DOMAIN upd THEN upd[k] ELSE cfg[k]]

\* a config argument that is absent or empty
NoConfig == [k \in {} |-> 0]

start_calibration_Silencing(a, tnow) ==
    [a EXCEPT !.is_calibrating = TRUE,
              !.calibration_complete = FALSE,
              !.samples = <<>>,
              !.last_calibration_time = tnow,
              !.last_is_speech = FALSE]

\* _start_calibration
start_calibration(a, tnow) ==
    [a EXCEPT !.is_calibrating = TRUE,
              !.calibration_complete = FALSE,
              !.samples = <<>>,
              !.last_calibration_time = tnow]

\* __init__(config)
NewAnalyzer(config, tnow) ==
    LET cfg == Merge(DEFAULT_CONFIG, config)
    IN  start_calibration(
            [ config                     |-> cfg,
              samples                    |-> <<>>,
              noise_floor                |-> 0,
              std_dev                    |-> 0,
              sensitivity_factor         |-> cfg.initial_sensitivity_factor,
              last_calibration_time      |-> 0,
              calibration_complete       |-> FALSE,
              is_calibrating             |-> TRUE,
              last_is_speech             |-> FALSE,
              consecutive_speech_frames  |-> 0,
              consecutive_silence_frames |-> 0,
              last_speech_time           |-> 0,
              last_silence_time          |-> 0 ],
            tnow)

\* the number of samples below which calibration falls back to the defaults
MinCalibrationSamples == 5
\* the fallback noise floor, 0.02
DefaultNoiseFloor == 200
\* the fallback standard deviation, 0.01
DefaultStdDev == 100
\* the threshold reported while calibration is not complete, 0.1
DefaultThreshold == 1000

complete_calibration_LowerLimit(a) ==
    LET enough == Len(a.samples) > MinCalibrationSamples
    IN  [a EXCEPT !.noise_floor = IF enough THEN mean(a.samples) ELSE DefaultNoiseFloor,
                  !.std_dev = IF enough THEN stdev(a.samples) ELSE DefaultStdDev,
                  !.is_calibrating = FALSE,
                  !.calibration_complete = TRUE]

\* _complete_calibration
complete_calibration(a) ==
    LET enough == Len(a.samples) >= MinCalibrationSamples
    IN  [a EXCEPT !.noise_floor = IF enough THEN mean(a.samples) ELSE DefaultNoiseFloor,
                  !.std_dev = IF enough
                              THEN (IF Len(a.samples) > 1 THEN stdev(a.samples)
                                                          ELSE DefaultStdDev)
                              ELSE DefaultStdDev,
                  !.is_calibrating = FALSE,
                  !.calibration_complete = TRUE]

\* get_current_threshold
get_current_threshold(a) ==
    IF ~a.calibration_complete
    THEN DefaultThreshold
    ELSE a.noise_floor + (a.std_dev * a.sensitivity_factor) \div FactorScale


adjust_sensitivity_factor_NoHysteresis(a) ==
    LET f == a.sensitivity_factor
        tighten == a.std_dev < 100
        loosen == ~tighten /\ a.std_dev > 1000
        new_factor == IF tighten THEN Min(2500, (f * 1100) \div FactorScale)
                                 ELSE Max(1200, (f * 900) \div FactorScale)
    IN  IF (tighten \/ loosen) /\ new_factor # f
        THEN [an |-> [a EXCEPT !.sensitivity_factor = new_factor],
              events |-> <<THRESHOLD_CHANGED>>]
        ELSE [an |-> a, events |-> <<>>]

\* _adjust_sensitivity_factor: the analyzer and the events it emits
adjust_sensitivity_factor(a) ==
    LET f == a.sensitivity_factor
        tighten == a.std_dev < 100               \* std_dev < 0.01
        loosen == ~tighten /\ a.std_dev > 1000   \* std_dev > 0.1
        new_factor == IF tighten THEN Min(2500, (f * 1100) \div FactorScale)
                                 ELSE Max(1200, (f * 900) \div FactorScale)
    IN  IF (tighten \/ loosen) /\ Abs(new_factor - f) > 100
        THEN [an |-> [a EXCEPT !.sensitivity_factor = new_factor],
              events |-> <<THRESHOLD_CHANGED>>]
        ELSE [an |-> a, events |-> <<>>]

\* _recalibrate_from_recent_silence (tnow: the clock it reads)
recalibrate_from_recent_silence(a, tnow) ==
    LET silence_samples == LastK(a.samples, Min(10, Len(a.samples)))
        sm == a.config.smoothing_factor
        new_floor == mean(silence_samples)
        a1 == [a EXCEPT
                 !.noise_floor = (a.noise_floor * (FactorScale - sm) + new_floor * sm)
                                     \div FactorScale,
                 !.std_dev = IF Len(silence_samples) > 1 THEN stdev(silence_samples)
                                                         ELSE a.std_dev,
                 !.last_calibration_time = tnow]
    IN  IF Len(a.samples) = 0
        THEN [an |-> a, events |-> <<>>]
        ELSE adjust_sensitivity_factor(a1)

add_sample_calibrating_Reporting(a, level, timestamp) ==
    LET a1 == [a EXCEPT !.samples = Append(a.samples, level)]
        elapsed == timestamp - a1.last_calibration_time
        done == elapsed >= a1.config.calibration_duration_ms
    IN  [an |-> IF done THEN complete_calibration(a1) ELSE a1,
         is_speech |-> a.last_is_speech,
         threshold |-> 0,
         events |-> IF done THEN <<CALIBRATION_COMPLETE>> ELSE <<>>,
         recalibrated |-> FALSE]

\* add_audio_sample while is_calibrating (lines 130-146)
add_sample_calibrating(a, level, timestamp) ==
    LET a1 == [a EXCEPT !.samples = Append(a.samples, level)]
        elapsed == timestamp - a1.last_calibration_time
        done == elapsed >= a1.config.calibration_duration_ms
    IN  [an |-> IF done THEN complete_calibration(a1) ELSE a1,
         is_speech |-> FALSE,
         threshold |-> 0,
         events |-> IF done THEN <<CALIBRATION_COMPLETE>> ELSE <<>>,
         recalibrated |-> FALSE]

\* line 170: enough consecutive speech frames to confirm speech
confirmed_is_speech(a) ==
    a.consecutive_speech_frames >= a.config.consecutive_frames_threshold

is_speech_end_Unlatched(a, is_speech) ==
    /\ ~is_speech
    /\ a.consecutive_silence_frames >= a.config.consecutive_frames_threshold

\* lines 185-186: the confirmed state falls back to silence
is_speech_end(a, is_speech) ==
    /\ ~is_speech
    /\ a.last_is_speech
    /\ a.consecutive_silence_frames >= a.config.consecutive_frames_threshold

\* lines 199-202: a silent-period recalibration is due
recalibration_due(a, is_speech, timestamp) ==
    /\ ~is_speech
    /\ (timestamp - a.last_speech_time) > a.config.silence_duration_for_recal_ms
    /\ (timestamp - a.last_calibration_time) > a.config.recalibration_interval_ms

\* add_audio_sample once calibrated (lines 148-212)
add_sample_ready(a, level, timestamp, tnow) ==
    LET appended == Append(a.samples, level)
        a1 == [a EXCEPT !.samples = IF Len(appended) > a.config.max_sample_history
                                    THEN Tail(appended) ELSE appended]
        threshold == get_current_threshold(a1)
        is_speech == level > threshold
        a2 == IF is_speech
              THEN [a1 EXCEPT !.consecutive_speech_frames = @ + 1,
                              !.consecutive_silence_frames = 0,
                              !.last_speech_time = timestamp]
              ELSE [a1 EXCEPT !.consecutive_speech_frames = 0,
                              !.consecutive_silence_frames = @ + 1,
                              !.last_silence_time = timestamp]
        r == recalibrate_from_recent_silence(a2, tnow)
    IN  IF confirmed_is_speech(a2) /\ ~a2.last_is_speech
        THEN [an |-> [a2 EXCEPT !.last_is_speech = TRUE],
              is_speech |-> TRUE, threshold |-> threshold,
              events |-> <<SPEECH_START>>, recalibrated |-> FALSE]
        ELSE IF is_speech_end(a2, is_speech)
        THEN [an |-> [a2 EXCEPT !.last_is_speech = FALSE],
              is_speech |-> FALSE, threshold |-> threshold,
              events |-> <<SPEECH_END>>, recalibrated |-> FALSE]
        ELSE IF recalibration_due(a2, is_speech, timestamp)
        THEN [an |-> r.an, is_speech |-> r.an.last_is_speech, threshold |-> threshold,
              events |-> r.events, recalibrated |-> TRUE]
        ELSE [an |-> a2, is_speech |-> a2.last_is_speech, threshold |-> threshold,
              events |-> <<>>, recalibrated |-> FALSE]

\* add_audio_sample(level, timestamp)
add_audio_sample(a, level, timestamp, tnow) ==
    IF a.is_calibrating
    THEN add_sample_calibrating(a, level, timestamp)
    ELSE add_sample_ready(a, level, timestamp, tnow)

\* force_recalibration
force_recalibration(a, tnow) == start_calibration(a, tnow)

\* update_config(config)
update_config(a, config) ==
    LET a1 == [a EXCEPT !.config = Merge(a.config, config)]
    IN  IF "initial_sensitivity_factor" \in DOMAIN config
        THEN [a1 EXCEPT !.sensitivity_factor = config.initial_sensitivity_factor]
        ELSE a1

---------------------------------------------------------------------------
(* SileroVADService: one process-wide instance (the class is a singleton). *)
(* audio_buffer is kept as runs <<voice, count>>: count samples that come  *)
(* from a frame of speech-likeness voice.                                  *)

\* speech-likeness of a frame's audio as the two external classifiers see it:
\* webrtcvad calls a frame speech when its voice exceeds the aggressiveness,
\* the Silero model scores a window by its share of samples of voice >= 2
VoiceGrades == 0..4

RECURSIVE BufLen(_)
BufLen(b) == IF b = <<>> THEN 0 ELSE Head(b)[2] + BufLen(Tail(b))

\* b[n:]
RECURSIVE DropSamples(_, _)
DropSamples(b, n) ==
    IF n <= 0 \/ b = <<>> THEN b
    ELSE IF Head(b)[2] <= n THEN DropSamples(Tail(b), n - Head(b)[2])
    ELSE << <<Head(b)[1], Head(b)[2] - n>> >> \o Tail(b)

\* b[:n]
RECURSIVE TakeSamples(_, _)
TakeSamples(b, n) ==
    IF n <= 0 \/ b = <<>> THEN <<>>
    ELSE IF Head(b)[2] <= n THEN <<Head(b)>> \o TakeSamples(Tail(b), n - Head(b)[2])
    ELSE << <<Head(b)[1], n>> >>

\* np.concatenate([audio_buffer, audio_np])
AppendSamples(b, voice, n) ==
    IF n = 0 THEN b
    ELSE IF b # <<>> /\ b[Len(b)][1] = voice
    THEN [b EXCEPT ![Len(b)] = <<voice, b[Len(b)][2] + n>>]
    ELSE Append(b, <<voice, n>>)

RECURSIVE VoicedSamples(_)
VoicedSamples(b) ==
    IF b = <<>> THEN 0
    ELSE (IF Head(b)[1] >= 2 THEN Head(b)[2] ELSE 0) + VoicedSamples(Tail(b))

\* the model's required input size for a sample rate (lines 66, 363)
required_samples_for(sample_rate) == IF sample_rate = 16000 THEN 512 ELSE 256

\* SileroVADService.__init__(config): runs once, for the first construction
NewSilero(sample_rate, loaded) ==
    [ initialized        |-> TRUE,
      loadable           |-> loaded,
      sample_rate        |-> sample_rate,
      threshold          |-> 500,            \* 0.5
      model_loaded       |-> loaded,
      audio_buffer       |-> <<>>,
      required_samples   |-> required_samples_for(sample_rate),
      total_predictions  |-> 0,
      positive_predictions |-> 0 ]

\* the class before its first construction (_instance = None); loadable:
\* whether torch.hub.load can deliver the model in this run
NoSilero(loadable) ==
    [ initialized        |-> FALSE,
      loadable           |-> loadable,
      sample_rate        |-> 0,
      threshold          |-> 0,
      model_loaded       |-> FALSE,
      audio_buffer       |-> <<>>,
      required_samples   |-> 0,
      total_predictions  |-> 0,
      positive_predictions |-> 0 ]

\* SileroVADService(config): __new__ returns the one instance, __init__ returns
\* at once when it is already initialized
silero_construct(sil, sample_rate) ==
    IF sil.initialized THEN sil ELSE NewSilero(sample_rate, sil.loadable)

trim_buffer_Consuming(b, used_samples) ==
    IF 2 * used_samples >= BufLen(b) THEN <<>> ELSE DropSamples(b, 2 * used_samples)

\* _trim_buffer(used_samples)
trim_buffer(b, used_samples) ==
    IF used_samples >= BufLen(b) THEN <<>> ELSE DropSamples(b, used_samples)

\* SileroVADService.process_audio(frame bytes): the instance and the result
silero_process_audio(sil, voice, nsamples) ==
    LET sil1 == [sil EXCEPT !.total_predictions = @ + 1]
        combined == AppendSamples(sil1.audio_buffer, voice, nsamples)
        sil2 == [sil1 EXCEPT !.audio_buffer = combined]
        win == TakeSamples(combined, sil2.required_samples)
        samples_used == Min(BufLen(combined), sil2.required_samples)
        \* confidence = voiced / required, is_speech = confidence > threshold
        is_speech == VoicedSamples(win) * FactorScale > sil2.threshold * sil2.required_samples
    IN  IF ~sil1.model_loaded
        THEN [sil |-> sil1, is_speech |-> FALSE, buffering |-> FALSE, error |-> TRUE]
        ELSE IF BufLen(combined) < sil2.required_samples
        THEN [sil |-> sil2, is_speech |-> FALSE, buffering |-> TRUE, error |-> FALSE]
        ELSE [sil |-> [sil2 EXCEPT
                         !.positive_predictions = IF is_speech THEN @ + 1 ELSE @,
                         !.audio_buffer = trim_buffer(combined, samples_used \div 2)],
              is_speech |-> is_speech, buffering |-> FALSE, error |-> FALSE]

\* SileroVADService.update_config(new_config) with a sample_rate
silero_update_config(sil, sample_rate) ==
    IF sil.sample_rate # sample_rate
    THEN [sil EXCEPT !.sample_rate = sample_rate,
                     !.required_samples = required_samples_for(sample_rate),
                     !.audio_buffer = <<>>]
    ELSE sil

---------------------------------------------------------------------------
(* UserSession                                                             *)

DEFAULT_SOCKET_VAD_CONFIG ==
    [ sample_rate        |-> 16000,
      frame_duration_ms  |-> 30,
      aggressiveness     |-> 2,
      use_webrtc_vad     |-> TRUE,
      use_rms_vad        |-> TRUE,
      use_silero_vad     |-> TRUE,
      webrtc_weight      |-> 400,    \* 0.4
      rms_weight         |-> 200,    \* 0.2
      silero_weight      |-> 400,    \* 0.4
      session_timeout_ms |-> 300000,
      buffer_size        |-> 1024,
      debug              |-> FALSE ]

\* webrtcvad.Vad(aggressiveness), and the attribute holding None
Vad(aggressiveness) == [present |-> TRUE, aggressiveness |-> aggressiveness]
NoVad == [present |-> FALSE, aggressiveness |-> 0]

\* frame_size in bytes (lines 95-99)
frame_size_for(config) ==
    (config.sample_rate * config.frame_duration_ms * 2) \div 1000

\* UserSession.__init__(session_id, config); the Silero instance is global
NewSession(session_id, config, tnow) ==
    LET cfg == Merge(DEFAULT_SOCKET_VAD_CONFIG, config)
    IN  [ session_id        |-> session_id,
          created_at        |-> tnow,
          last_activity     |-> tnow,
          config            |-> cfg,
          audio_service     |-> NewAnalyzer(NoConfig, tnow),
          webrtc_vad        |-> IF cfg.use_webrtc_vad THEN Vad(cfg.aggressiveness) ELSE NoVad,
          silero_vad        |-> cfg.use_silero_vad,
          is_speaking       |-> FALSE,
          speech_start_time |-> 0,
          speech_end_time   |-> 0,
          frames            |-> <<>>,
          max_frames        |-> 100,
          total_frames      |-> 0,
          speech_frames     |-> 0,
          frame_size        |-> frame_size_for(cfg) ]

is_expired_Seconds(sess, tnow) ==
    (tnow \div 1000 - sess.last_activity) > sess.config.session_timeout_ms

is_expired_AtTimeout(sess, tnow) ==
    (tnow - sess.last_activity) >= sess.config.session_timeout_ms

\* is_expired (tnow: the clock it reads)
is_expired(sess, tnow) ==
    (tnow - sess.last_activity) > sess.config.session_timeout_ms

update_activity_Keeping(sess, tnow) == sess

\* update_activity
update_activity(sess, tnow) == [sess EXCEPT !.last_activity = tnow]

\* webrtcvad.Vad(aggressiveness).is_speech(frame, sample_rate): raises for a
\* sample rate or frame length it does not support
webrtc_supported(sample_rate, nbytes) ==
    /\ sample_rate \in {8000, 16000, 32000, 48000}
    /\ \E ms \in {10, 20, 30} : nbytes = (sample_rate * ms * 2) \div 1000

webrtc_is_speech_Unchecked(vad, frame, sample_rate) ==
    frame.voice > vad.aggressiveness

webrtc_is_speech(vad, frame, sample_rate) ==
    webrtc_supported(sample_rate, frame.nbytes) /\ frame.voice > vad.aggressiveness

ensemble_AllWeights(config, is_speech_rms, is_speech_webrtc, is_speech_silero) ==
    LET Vote(b, w) == IF b THEN w ELSE 0
        weighted_sum == Vote(config.use_rms_vad /\ is_speech_rms, config.rms_weight)
                      + Vote(config.use_webrtc_vad /\ is_speech_webrtc, config.webrtc_weight)
                      + Vote(config.use_silero_vad /\ is_speech_silero, config.silero_weight)
        total_weight == config.rms_weight + config.webrtc_weight + config.silero_weight
    IN  IF total_weight > 0
        THEN [score |-> <<weighted_sum, total_weight>>,
              is_speech |-> 2 * weighted_sum > total_weight]
        ELSE [score |-> <<0, 1>>, is_speech |-> is_speech_rms]

\* lines 223-249: the weighted vote of the enabled classifiers; the score is
\* the exact quotient <<weighted_sum, total_weight>>, 0.0 being <<0, 1>>
ensemble(config, is_speech_rms, is_speech_webrtc, is_speech_silero) ==
    LET Vote(b, w) == IF b THEN w ELSE 0
        s1 == IF config.use_rms_vad THEN Vote(is_speech_rms, config.rms_weight) ELSE 0
        t1 == IF config.use_rms_vad THEN config.rms_weight ELSE 0
        s2 == s1 + IF config.use_webrtc_vad
                   THEN Vote(is_speech_webrtc, config.webrtc_weight) ELSE 0
        t2 == t1 + IF config.use_webrtc_vad THEN config.webrtc_weight ELSE 0
        weighted_sum == s2 + IF config.use_silero_vad
                             THEN Vote(is_speech_silero, config.silero_weight) ELSE 0
        total_weight == t2 + IF config.use_silero_vad THEN config.silero_weight ELSE 0
    IN  IF total_weight > 0
        THEN [score |-> <<weighted_sum, total_weight>>,
              is_speech |-> 2 * weighted_sum > total_weight]
        ELSE [score |-> <<0, 1>>, is_speech |-> is_speech_rms]

\* the classifier votes on a frame before any classifier has run; vad: the
\* bitstream classifier asked, webrtc_failed, silero_failed: the call failed,
\* silero_buffering: the neural classifier answered that it is buffering
NoVotes ==
    [rms |-> FALSE, webrtc |-> FALSE, silero |-> FALSE, vad |-> NoVad,
     webrtc_failed |-> FALSE, silero_failed |-> FALSE, silero_buffering |-> FALSE]

\* lines 204-209: webrtc_vad.is_speech is called and raises
webrtc_raises(sess, frame) ==
    /\ sess.webrtc_vad.present
    /\ frame.nbytes = sess.frame_size
    /\ ~webrtc_supported(sess.config.sample_rate, frame.nbytes)

\* lines 202-209: the bitstream classifier's vote
frame_webrtc(sess, frame) ==
    IF sess.webrtc_vad.present /\ frame.nbytes = sess.frame_size
    THEN webrtc_is_speech(sess.webrtc_vad, frame, sess.config.sample_rate)
    ELSE FALSE

\* lines 211-221: the neural classifier's vote and the Silero instance after it
frame_silero(sess, sil, frame) ==
    LET sr == silero_process_audio(sil, frame.voice, frame.nbytes \div 2)
    IN  IF sess.silero_vad /\ frame.nbytes = sess.frame_size
        THEN [sil |-> sr.sil, is_speech |-> sr.is_speech, error |-> sr.error,
              buffering |-> sr.buffering]
        ELSE [sil |-> sil, is_speech |-> FALSE, error |-> FALSE, buffering |-> FALSE]

store_frame_EvictingNewest(sess, frame, timestamp, votes) ==
    LET e == ensemble(sess.config, votes.rms, votes.webrtc, votes.silero)
        stored == [ level |-> frame.level, timestamp |-> timestamp,
                    is_speech_rms |-> votes.rms,
                    is_speech_webrtc |-> votes.webrtc,
                    is_speech_silero |-> votes.silero,
                    is_speech_ensemble |-> e.is_speech ]
        kept == IF Len(sess.frames) >= sess.max_frames
                THEN SubSeq(sess.frames, 1, Len(sess.frames) - 1) ELSE sess.frames
    IN  [ sess |-> [sess EXCEPT !.frames = Append(kept, stored),
                                !.speech_frames = IF e.is_speech THEN @ + 1 ELSE @],
          result |-> [ is_speech_rms |-> votes.rms,
                       is_speech_webrtc |-> votes.webrtc,
                       is_speech_silero |-> votes.silero,
                       webrtc_vad |-> votes.vad,
                       voice |-> frame.voice,
                       webrtc_failed |-> votes.webrtc_failed,
                       silero_failed |-> votes.silero_failed,
                       silero_buffering |-> votes.silero_buffering,
                       is_speech |-> e.is_speech,
                       ensemble_score |-> e.score,
                       config |-> sess.config ] ]

\* lines 223-279: the ensemble decision, the frame history, speech_frames and
\* the frame's result
store_frame(sess, frame, timestamp, votes) ==
    LET e == ensemble(sess.config, votes.rms, votes.webrtc, votes.silero)
        stored == [ level |-> frame.level, timestamp |-> timestamp,
                    is_speech_rms |-> votes.rms,
                    is_speech_webrtc |-> votes.webrtc,
                    is_speech_silero |-> votes.silero,
                    is_speech_ensemble |-> e.is_speech ]
        kept == IF Len(sess.frames) >= sess.max_frames THEN Tail(sess.frames) ELSE sess.frames
    IN  [ sess |-> [sess EXCEPT !.frames = Append(kept, stored),
                                !.speech_frames = IF e.is_speech THEN @ + 1 ELSE @],
          result |-> [ is_speech_rms |-> votes.rms,
                       is_speech_webrtc |-> votes.webrtc,
                       is_speech_silero |-> votes.silero,
                       webrtc_vad |-> votes.vad,
                       voice |-> frame.voice,
                       webrtc_failed |-> votes.webrtc_failed,
                       silero_failed |-> votes.silero_failed,
                       silero_buffering |-> votes.silero_buffering,
                       is_speech |-> e.is_speech,
                       ensemble_score |-> e.score,
                       config |-> sess.config ] ]

\* lines 202-279, given what add_audio_sample (rms) and the neural
\* classifier (sr) returned: the classifier votes, then store_frame
classified_frame(sess, frame, timestamp, rms, sr) ==
    store_frame([sess EXCEPT !.audio_service = rms.an], frame, timestamp,
                [ rms |-> rms.is_speech,
                  webrtc |-> frame_webrtc(sess, frame),
                  silero |-> sr.is_speech,
                  vad |-> IF frame.nbytes = sess.frame_size THEN sess.webrtc_vad ELSE NoVad,
                  webrtc_failed |-> webrtc_raises(sess, frame),
                  silero_failed |-> sr.error,
                  silero_buffering |-> sr.buffering ])

\* what _process_frame leaves and returns: the session, the Silero instance
\* and the frame's result
frame_outcome(sf, sil) == [sess |-> sf.sess, sil |-> sil, result |-> sf.result]

\* lines 198-279, given what the neural classifier (sr) returned
measured_frame(sess, frame, timestamp, tnow, sr) ==
    frame_outcome(
        classified_frame(sess, frame, timestamp,
                         add_audio_sample(sess.audio_service, frame.level, timestamp, tnow),
                         sr),
        sr.sil)

process_frame_CountingOnce(sess, sil, frame, timestamp, tnow) ==
    measured_frame([sess EXCEPT !.total_frames = Max(@, 1)], frame, timestamp, tnow,
                   frame_silero(sess, sil, frame))

\* _process_frame(frame_data, timestamp); the classifiers do not depend on one
\* another's results
process_frame(sess, sil, frame, timestamp, tnow) ==
    measured_frame([sess EXCEPT !.total_frames = @ + 1], frame, timestamp, tnow,
                   frame_silero(sess, sil, frame))

\* a slice of frame_size bytes of the decoded audio (line 141)
full_frame(sess, f) == [level |-> f.level, voice |-> f.voice, nbytes |-> sess.frame_size]

RECURSIVE process_frames(_, _, _, _, _, _)

\* lines 142-143: the frame's result is appended and the loop goes on
next_frames(r, frames, timestamp, tnow, results) ==
    process_frames(r.sess, r.sil, frames, timestamp, tnow, Append(results, r.result))

\* the frame loop of process_audio_chunk (lines 137-143)
process_frames(sess, sil, frames, timestamp, tnow, results) ==
    IF frames = <<>>
    THEN [sess |-> sess, sil |-> sil, results |-> results]
    ELSE next_frames(process_frame(sess, sil, full_frame(sess, Head(frames)), timestamp, tnow),
                     Tail(frames), timestamp, tnow, results)

\* the number of speech frames among the results (line 148)
RECURSIVE count_speech(_)
count_speech(results) ==
    IF results = <<>> THEN 0
    ELSE (IF Head(results).is_speech THEN 1 ELSE 0) + count_speech(Tail(results))

\* the values process_audio_chunk returns
NoResult ==
    [ event |-> "", error |-> "", timestamp |-> 0, confidence |-> <<0, 1>>,
      duration_ms |-> 0, is_speaking |-> FALSE, session_id |-> 0 ]

new_is_speaking_AnySpeech(speech_frames, nresults) == speech_frames > 0

new_is_speaking_AtLeastHalf(speech_frames, nresults) == 2 * speech_frames >= nresults

\* line 151: speech_ratio > 0.5
new_is_speaking(speech_frames, nresults) == 2 * speech_frames > nresults

finish_chunk_Repeating(sess, results, timestamp) ==
    LET n == Len(results)
        speech_frames == count_speech(results)
        speaking == new_is_speaking(speech_frames, n)
    IN  IF n > 0 /\ speaking
        THEN [sess |-> [sess EXCEPT !.is_speaking = TRUE, !.speech_start_time = timestamp],
              result |-> [NoResult EXCEPT !.event = "speech_start",
                                          !.timestamp = timestamp,
                                          !.confidence = <<speech_frames, n>>,
                                          !.session_id = sess.session_id]]
        ELSE IF n > 0 /\ ~speaking /\ sess.is_speaking
        THEN [sess |-> [sess EXCEPT !.is_speaking = FALSE, !.speech_end_time = timestamp],
              result |-> [NoResult EXCEPT !.event = "speech_end",
                                          !.timestamp = timestamp,
                                          !.duration_ms = timestamp - sess.speech_start_time,
                                          !.session_id = sess.session_id]]
        ELSE [sess |-> sess,
              result |-> [NoResult EXCEPT !.event = "vad_update",
                                          !.timestamp = timestamp,
                                          !.is_speaking = sess.is_speaking,
                                          !.session_id = sess.session_id]]

finish_chunk_SinceLastEnd(sess, results, timestamp) ==
    LET n == Len(results)
        speech_frames == count_speech(results)
        speaking == new_is_speaking(speech_frames, n)
    IN  IF n > 0 /\ speaking /\ ~sess.is_speaking
        THEN [sess |-> [sess EXCEPT !.is_speaking = TRUE, !.speech_start_time = timestamp],
              result |-> [NoResult EXCEPT !.event = "speech_start",
                                          !.timestamp = timestamp,
                                          !.confidence = <<speech_frames, n>>,
                                          !.session_id = sess.session_id]]
        ELSE IF n > 0 /\ ~speaking /\ sess.is_speaking
        THEN [sess |-> [sess EXCEPT !.is_speaking = FALSE, !.speech_end_time = timestamp],
              result |-> [NoResult EXCEPT !.event = "speech_end",
                                          !.timestamp = timestamp,
                                          !.duration_ms = timestamp - sess.speech_end_time,
                                          !.session_id = sess.session_id]]
        ELSE [sess |-> sess,
              result |-> [NoResult EXCEPT !.event = "vad_update",
                                          !.timestamp = timestamp,
                                          !.is_speaking = sess.is_speaking,
                                          !.session_id = sess.session_id]]

\* lines 146-179: the state transition a chunk's frame results bring about
\* and the value process_audio_chunk returns
finish_chunk(sess, results, timestamp) ==
    LET n == Len(results)
        speech_frames == count_speech(results)
        speaking == new_is_speaking(speech_frames, n)
    IN  IF n > 0 /\ speaking /\ ~sess.is_speaking
        THEN [sess |-> [sess EXCEPT !.is_speaking = TRUE, !.speech_start_time = timestamp],
              result |-> [NoResult EXCEPT !.event = "speech_start",
                                          !.timestamp = timestamp,
                                          !.confidence = <<speech_frames, n>>,
                                          !.session_id = sess.session_id]]
        ELSE IF n > 0 /\ ~speaking /\ sess.is_speaking
        THEN [sess |-> [sess EXCEPT !.is_speaking = FALSE, !.speech_end_time = timestamp],
              result |-> [NoResult EXCEPT !.event = "speech_end",
                                          !.timestamp = timestamp,
                                          !.duration_ms = timestamp - sess.speech_start_time,
                                          !.session_id = sess.session_id]]
        ELSE [sess |-> sess,
              result |-> [NoResult EXCEPT !.event = "vad_update",
                                          !.timestamp = timestamp,
                                          !.is_speaking = sess.is_speaking,
                                          !.session_id = sess.session_id]]

\* what process_audio_chunk leaves and returns, given the outcome r of the
\* frame loop and the outcome f of the state transition; nbytes: the length
\* of the decoded audio
chunk_outcome(r, f, nbytes) ==
    [sess |-> f.sess, sil |-> r.sil, results |-> r.results, result |-> f.result,
     nbytes |-> nbytes]

\* lines 145-179, given the outcome r of the frame loop
processed_chunk(r, timestamp, nbytes) ==
    chunk_outcome(r, finish_chunk(r.sess, r.results, timestamp), nbytes)

\* len(decoded_audio) of a chunk that decodes (line 130)
decoded_len(frame_size, chunk) == Len(chunk.frames) * frame_size + chunk.tail

chunk_slices_Padding(frame_size, chunk) ==
    chunk.frames \o (IF chunk.tail > 0 THEN <<[level |-> 3000, voice |-> 2]>> ELSE <<>>)

\* lines 138-141: the slices decoded_audio[i:i+frame_size] the loop passes on,
\* for i in range(0, len(decoded_audio), frame_size) with i + frame_size <=
\* len(decoded_audio); the bytes after the full frames are a loud partial frame
chunk_slices(frame_size, chunk) ==
    LET len == decoded_len(frame_size, chunk)
        pieces == chunk.frames
                  \o (IF chunk.tail > 0 THEN <<[level |-> 3000, voice |-> 2]>> ELSE <<>>)
        full == { i \in 0..((len - 1) \div frame_size) : i * frame_size + frame_size <= len }
    IN  SubSeq(pieces, 1, Cardinality(full))

\* process_audio_chunk(audio_data): a chunk is its decodability, the contents
\* of its successive frame_size slices and the bytes left over after them
process_audio_chunk(sess, sil, chunk, tnow) ==
    IF ~chunk.decodable
    THEN [sess |-> update_activity(sess, tnow), sil |-> sil, results |-> <<>>,
          result |-> [NoResult EXCEPT !.error = "Invalid audio data format"],
          nbytes |-> 0]
    ELSE processed_chunk(
             process_frames(update_activity(sess, tnow), sil,
                            chunk_slices(sess.frame_size, chunk), tnow, tnow, <<>>),
             tnow, decoded_len(sess.frame_size, chunk))

\* UserSession.force_recalibration
session_force_recalibration(sess, tnow) ==
    [sess EXCEPT !.audio_service = force_recalibration(@, tnow)]

Has(config, key) == key \in DOMAIN config

\* lines 296-297: the classifier after an update of the configuration
updated_webrtc_vad(sess, config, merged) ==
    IF Has(config, "aggressiveness") /\ merged.use_webrtc_vad
    THEN Vad(merged.aggressiveness)
    ELSE sess.webrtc_vad

\* UserSession.update_vad_config(config): the session, the Silero instance and
\* whether the call raised (webrtcvad.Vad rejects an aggressiveness outside
\* 0..3; a session created without the Silero classifier holds None)
update_vad_config(sess, sil, config, tnow) ==
    LET merged == Merge(sess.config, config)
        s0 == [sess EXCEPT !.config = merged]
        vad_raises == /\ Has(config, "aggressiveness") /\ merged.use_webrtc_vad
                      /\ merged.aggressiveness \notin 0..3
        s1 == [s0 EXCEPT !.webrtc_vad = updated_webrtc_vad(sess, config, merged)]
        silero_due == Has(config, "sample_rate") /\ merged.use_silero_vad
        silero_raises == silero_due /\ ~sess.silero_vad
        sil1 == IF silero_due
                THEN silero_update_config(sil, config.sample_rate)
                ELSE sil
        s2 == IF Has(config, "initial_sensitivity_factor")
              THEN [s1 EXCEPT !.audio_service =
                       update_config(@, [initial_sensitivity_factor |->
                                             config.initial_sensitivity_factor])]
              ELSE s1
        s3 == IF Has(config, "recalibrate") /\ config.recalibrate
              THEN session_force_recalibration(s2, tnow)
              ELSE s2
    IN  IF DOMAIN config = {}
        THEN [sess |-> sess, sil |-> sil, raised |-> FALSE]
        ELSE IF vad_raises
        THEN [sess |-> s0, sil |-> sil, raised |-> TRUE]
        ELSE IF silero_raises
        THEN [sess |-> s1, sil |-> sil, raised |-> TRUE]
        ELSE [sess |-> s3, sil |-> sil1, raised |-> FALSE]

---------------------------------------------------------------------------
(* SocketVADService                                                        *)

\* what the analyzer's caller saw before any call; run: how many samples
\* above the threshold were classified one after the other up to this one,
\* with no other sample and no start of a calibration in between
NoObs ==
    [op |-> "init", level |-> 0, timestamp |-> 0, ready |-> FALSE, wasSpeaking |-> FALSE,
     is_speech |-> FALSE, threshold |-> 0, events |-> <<>>, recalibrated |-> FALSE,
     run |-> 0]

\* a session id that is None or empty
NoId == 0
\* the ids clients make up themselves
ClientIds == {101}

\* str(uuid.uuid4()): a value no earlier call returned (n were generated)
uuid4(n) == n + 1

new_session_id_Cached(session_id, n) ==
    IF session_id # NoId THEN session_id ELSE uuid4(0)

\* line 394: session_id or str(uuid.uuid4())
new_session_id(session_id, n) ==
    IF session_id # NoId THEN session_id ELSE uuid4(n)

\* lines 387-389: the session is known and has not expired
session_is_valid(dict, objs, session_id, tnow) ==
    /\ session_id # NoId
    /\ session_id \in DOMAIN dict
    /\ ~is_expired(objs[dict[session_id]], tnow)

\* dict[key] = value
Put(dict, key, value) ==
    [k \in (DOMAIN dict) \cup {key} |-> IF k = key THEN value ELSE dict[k]]

\* del dict[key]
Del(dict, key) == [k \in (DOMAIN dict) \ {key} |-> dict[k]]

\* the empty dict
NoSessions == [k \in {} |-> 0]

\* the values the service's calls return (op: the call, arg: its session id),
\* and what get_or_create_session met: whether the id was a key (known) and
\* for how long its session had been inactive (idle), and what process_audio
\* was given: the length of the decoded audio (nbytes)
NoOut ==
    [ op |-> "", arg |-> NoId, session_id |-> NoId, ref |-> 0, found |-> FALSE,
      known |-> FALSE, idle |-> 0, nbytes |-> 0,
      was_speaking |-> FALSE, result |-> NoResult, results |-> <<>> ]

\* the registry variables while only the stand-alone analyzer is exercised
NoRegistry ==
    /\ heap = <<>>
    /\ sessions = NoSessions
    /\ silero = NoSilero(TRUE)
    /\ nUuid = 0
    /\ ever = {}
    /\ out = NoOut

\* api.active_sessions while the handlers' bookkeeping is left aside
NoApi == active_sessions = NoSessions

\* no call is in progress: every handler runs to completion
NoRace ==
    /\ threads = <<>>
    /\ base = <<>>

\* the analyzer variables while only the service is exercised
NoAnalyzer ==
    /\ an = NewAnalyzer(NoConfig, 0)
    /\ obs = NoObs
    /\ window = <<>>
    /\ belowRun = 0

---------------------------------------------------------------------------
(* The stand-alone analyzer driven by its callers.                         *)

\* the configurations an analyzer is constructed with
AnalyzerConfigs ==
    { [max_sample_history |-> h] : h \in {3} }

\* the configurations update_config is called with: the value a client
\* sends is passed on as it is (2.0, 3.0)
ConfigUpdates ==
    { [initial_sensitivity_factor |-> f] : f \in {2000, 3000} }

InitAnalyzer ==
    /\ now = 0
    /\ NoApi
    /\ NoRegistry
    /\ NoRace
    /\ \E c \in AnalyzerConfigs : an = NewAnalyzer(c, 0)
    /\ obs = NoObs
    /\ window = <<>>
    /\ belowRun = 0

\* time passes
Tick ==
    /\ \E d \in TickSteps : now + d <= MaxClock /\ now' = now + d
    /\ UNCHANGED <<anVars, regVars, raceVars, apiVars>>

\* a caller submits one of levels, stamped with the current time; a
\* calibration window collects maxCal samples at most
SubmitSample(levels, maxCal) ==
    \E level \in levels :
        LET r == add_audio_sample(an, level, now, now)
            classified == ~an.is_calibrating
            above == level > get_current_threshold(an)
        IN  /\ an.is_calibrating => Len(an.samples) < maxCal
            /\ classified => /\ an.consecutive_speech_frames < MaxRun
                             /\ an.consecutive_silence_frames < MaxRun
            /\ an' = r.an
            /\ obs' = [op |-> "sample", level |-> level, timestamp |-> now, ready |-> classified,
                       wasSpeaking |-> an.last_is_speech,
                       is_speech |-> r.is_speech, threshold |-> r.threshold,
                       events |-> r.events, recalibrated |-> r.recalibrated,
                       run |-> IF classified /\ above THEN obs.run + 1 ELSE 0]
            /\ window' = IF an.is_calibrating THEN Append(window, level) ELSE <<>>
            /\ belowRun' = IF ~classified THEN belowRun
                           ELSE IF above THEN 0 ELSE belowRun + 1
            /\ UNCHANGED <<now, regVars, raceVars, apiVars>>

AddAudioSample == SubmitSample(Levels, MaxCalSamples)

ForceRecalibration ==
    /\ an' = force_recalibration(an, now)
    /\ obs' = [NoObs EXCEPT !.op = "force_recalibration",
                            !.wasSpeaking = an.last_is_speech,
                            !.events = <<CALIBRATION_START>>]
    /\ window' = <<>>
    /\ UNCHANGED <<now, belowRun, regVars, raceVars, apiVars>>

\* a caller updates the configuration with one of updates
SubmitConfig(updates) ==
    \E c \in updates :
        /\ an' = update_config(an, c)
        /\ obs' = [NoObs EXCEPT !.op = "update_config",
                                !.wasSpeaking = an.last_is_speech,
                                !.run = obs.run]
        /\ UNCHANGED <<now, window, belowRun, regVars, raceVars, apiVars>>

UpdateConfig == SubmitConfig(ConfigUpdates)

NextAnalyzer ==
    \/ Tick
    \/ AddAudioSample
    \/ ForceRecalibration
    \/ UpdateConfig

SpecAnalyzer == InitAnalyzer /\ [][NextAnalyzer]_vars

---------------------------------------------------------------------------
(* The analyzer through a silent-period recalibration: levels of a steady  *)
(* background (0.01), of a background that varies a little (0.03) and of   *)
(* speech (0.3), and sensitivity factors near the ends of the range.       *)

NextRecal ==
    \/ Tick
    \/ SubmitSample({100, 300, 3000}, 2)
    \/ SubmitConfig({ [initial_sensitivity_factor |-> f] : f \in {1250, 2450} })

SpecRecal == InitAnalyzer /\ [][NextRecal]_vars

---------------------------------------------------------------------------
(* The service driven by its handlers, each handler running to completion. *)

\* SocketVADService.config of the global instance (constructed without config)
ServiceConfig == DEFAULT_SOCKET_VAD_CONFIG

\* the time by which a session's analyzer can have calibrated
SessionClock == 2000
\* a session processes at most this many frames
MaxFrames == 3
\* a chunk holds at most this many full frames
MaxChunkFrames == 2
\* at most this many UserSession objects are constructed
MaxObjects == 2

\* the audio of one frame: its RMS level and its speech-likeness
FrameKinds ==
    { [level |-> 100, voice |-> 0],
      [level |-> 3000, voice |-> 2] }

FrameSeqs(n) == UNION { [1..k -> FrameKinds] : k \in 0..n }

\* the chunks a client sends: payloads that do not decode, and payloads of
\* some full frames followed by a partial one of tail bytes
Chunks(n) ==
    { [decodable |-> TRUE, frames |-> fs, tail |-> t] : fs \in FrameSeqs(n), t \in {0, 100} }
    \cup { [decodable |-> FALSE, frames |-> <<>>, tail |-> 0] }

\* the configurations update_vad_config is called with
VadUpdates ==
    { [use_rms_vad |-> b] : b \in BOOLEAN }
    \cup { [use_webrtc_vad |-> b] : b \in BOOLEAN }
    \cup { [use_silero_vad |-> b] : b \in BOOLEAN }
    \cup { [aggressiveness |-> a] : a \in {1} }

\* get_or_create_session(session_id)
GetOrCreateSession(ids) ==
    \E sid \in ids :
        IF session_is_valid(sessions, heap, sid, now)
        THEN /\ heap' = [heap EXCEPT ![sessions[sid]] = update_activity(@, now)]
             /\ out' = [NoOut EXCEPT !.op = "get_or_create", !.arg = sid,
                                     !.session_id = sid, !.ref = sessions[sid],
                                     !.found = TRUE, !.known = TRUE,
                                     !.idle = now - heap[sessions[sid]].last_activity]
             /\ UNCHANGED <<now, anVars, raceVars, sessions, silero, nUuid, ever>>
        ELSE LET id == new_session_id(sid, nUuid)
                 obj == NewSession(id, ServiceConfig, now)
             IN  /\ Len(heap) < MaxObjects
                 /\ heap' = Append(heap, obj)
                 /\ sessions' = Put(sessions, id, Len(heap) + 1)
                 /\ silero' = IF obj.config.use_silero_vad
                              THEN silero_construct(silero, obj.config.sample_rate)
                              ELSE silero
                 /\ nUuid' = IF sid = NoId THEN nUuid + 1 ELSE nUuid
                 /\ ever' = ever \cup {id}
                 /\ out' = [NoOut EXCEPT !.op = "get_or_create", !.arg = sid,
                                         !.session_id = id, !.ref = Len(heap) + 1,
                                         !.known = sid \in DOMAIN sessions,
                                         !.idle = IF sid \in DOMAIN sessions
                                                  THEN now - heap[sessions[sid]].last_activity
                                                  ELSE 0]
                 /\ UNCHANGED <<now, anVars, raceVars>>

\* lines 410-412: the session's process_audio_chunk returned r
Processed(sid, ref, r) ==
    /\ heap' = [heap EXCEPT ![ref] = r.sess]
    /\ silero' = r.sil
    /\ out' = [NoOut EXCEPT !.op = "process_audio", !.arg = sid,
                            !.session_id = sid, !.ref = ref, !.found = TRUE,
                            !.was_speaking = heap[ref].is_speaking,
                            !.nbytes = r.nbytes,
                            !.result = r.result, !.results = r.results]
    /\ UNCHANGED <<now, anVars, sessions, nUuid, ever>>

ProcessAudio_Creating(ids, chunks, maxFrames) ==
    \E sid \in ids, chunk \in chunks :
        IF sid \in DOMAIN sessions
        THEN /\ heap[sessions[sid]].total_frames + Len(chunk.frames) <= maxFrames
             /\ Processed(sid, sessions[sid],
                          process_audio_chunk(heap[sessions[sid]], silero, chunk, now))
             /\ UNCHANGED raceVars
        ELSE /\ Len(heap) < MaxObjects
             /\ heap' = Append(heap, NewSession(sid, ServiceConfig, now))
             /\ sessions' = Put(sessions, sid, Len(heap) + 1)
             /\ out' = [NoOut EXCEPT !.op = "process_audio", !.arg = sid,
                                     !.result = [NoResult EXCEPT !.error = "not found"]]
             /\ UNCHANGED <<now, anVars, raceVars, silero, nUuid, ever>>

\* process_audio(session_id, audio_data); a session is fed maxFrames at most
ProcessAudio(ids, chunks, maxFrames) ==
    \E sid \in ids, chunk \in chunks :
        IF sid \in DOMAIN sessions
        THEN /\ heap[sessions[sid]].total_frames + Len(chunk.frames) <= maxFrames
             /\ Processed(sid, sessions[sid],
                          process_audio_chunk(heap[sessions[sid]], silero, chunk, now))
             /\ UNCHANGED raceVars
        ELSE /\ out' = [NoOut EXCEPT !.op = "process_audio", !.arg = sid,
                                     !.result = [NoResult EXCEPT !.error = "not found"]]
             /\ UNCHANGED <<now, anVars, raceVars, heap, sessions, silero, nUuid, ever>>

\* handle_update_vad_config: get_session(session_id), then update_vad_config
UpdateVadConfig(ids, updates) ==
    \E sid \in ids, config \in updates :
        IF sid \in DOMAIN sessions
        THEN LET ref == sessions[sid]
                 r == update_vad_config(heap[ref], silero, config, now)
             IN  /\ heap' = [heap EXCEPT ![ref] = r.sess]
                 /\ silero' = r.sil
                 /\ out' = [NoOut EXCEPT !.op = "update_vad_config", !.arg = sid,
                                         !.session_id = sid, !.ref = ref, !.found = TRUE,
                                         !.was_speaking = heap[ref].is_speaking,
                                         !.result = [NoResult EXCEPT !.error =
                                                        IF r.raised THEN "raised" ELSE ""]]
                 /\ UNCHANGED <<now, anVars, raceVars, sessions, nUuid, ever>>
        ELSE /\ out' = [NoOut EXCEPT !.op = "update_vad_config", !.arg = sid,
                                     !.result = [NoResult EXCEPT !.error = "not found"]]
             /\ UNCHANGED <<now, anVars, raceVars, heap, sessions, silero, nUuid, ever>>

RemoveSession_Clearing(ids) ==
    \E sid \in ids :
        /\ sessions' = IF sid \in DOMAIN sessions THEN NoSessions ELSE sessions
        /\ out' = [NoOut EXCEPT !.op = "remove_session", !.arg = sid,
                                !.found = sid \in DOMAIN sessions]
        /\ UNCHANGED <<now, anVars, raceVars, heap, silero, nUuid, ever>>

\* remove_session(session_id)
RemoveSession(ids) ==
    \E sid \in ids :
        /\ sessions' = IF sid \in DOMAIN sessions THEN Del(sessions, sid) ELSE sessions
        /\ out' = [NoOut EXCEPT !.op = "remove_session", !.arg = sid,
                                !.found = sid \in DOMAIN sessions]
        /\ UNCHANGED <<now, anVars, raceVars, heap, silero, nUuid, ever>>

\* the keys _cleanup_expired_sessions collects (lines 421-424)
expired_sessions(dict, objs, tnow) ==
    { sid \in DOMAIN dict : is_expired(objs[dict[sid]], tnow) }

\* _cleanup_expired_sessions, undisturbed by any handler
CleanupExpiredSessions ==
    /\ sessions' = [sid \in (DOMAIN sessions) \ expired_sessions(sessions, heap, now)
                        |-> sessions[sid]]
    /\ out' = [NoOut EXCEPT !.op = "cleanup"]
    /\ UNCHANGED <<now, anVars, raceVars, apiVars, heap, silero, nUuid, ever>>

\* time passes, by one of steps, up to max
Pass(steps, max) ==
    /\ \E d \in steps : now + d <= max /\ now' = now + d
    /\ out' = [NoOut EXCEPT !.op = "tick"]
    /\ UNCHANGED <<anVars, raceVars, heap, sessions, silero, nUuid, ever>>

---------------------------------------------------------------------------
(* One session: init_vad once, then chunks and configuration updates.      *)

\* the state after SocketVADService() and one init_vad without an id
InitSession ==
    /\ now = 0
    /\ NoApi
    /\ NoAnalyzer
    /\ NoRace
    /\ \E loadable \in BOOLEAN :
           LET obj == NewSession(uuid4(0), ServiceConfig, 0)
           IN  /\ heap = <<obj>>
               /\ silero = silero_construct(NoSilero(loadable), obj.config.sample_rate)
    /\ sessions = Put(NoSessions, uuid4(0), 1)
    /\ nUuid = 1
    /\ ever = {uuid4(0)}
    /\ out = [NoOut EXCEPT !.op = "get_or_create", !.session_id = uuid4(0), !.ref = 1]

SessionProcessAudio ==
    /\ ProcessAudio(DOMAIN sessions, Chunks(MaxChunkFrames), MaxFrames)
    /\ UNCHANGED apiVars

SessionUpdateVadConfig ==
    /\ UpdateVadConfig(DOMAIN sessions, VadUpdates)
    /\ UNCHANGED apiVars

SessionTick ==
    /\ Pass({SessionClock}, SessionClock)
    /\ UNCHANGED apiVars

NextSession ==
    \/ SessionProcessAudio
    \/ SessionUpdateVadConfig
    \/ SessionTick

SpecSession == InitSession /\ [][NextSession]_vars

---------------------------------------------------------------------------
(* One session fed a long recording, cut into chunks of one or two frames, *)
(* until its frame history has filled up and turned over.                  *)

\* the session is fed this many frames of the recording
HistoryFrames == 102

\* the audio of the i-th frame of the recording: the level rises slowly, and
\* every third frame is speech loud and clear
HistoryAudio(i) == [level |-> 100 + i, voice |-> IF i % 3 = 0 THEN 3 ELSE 0]

NextHistory ==
    \/ /\ ProcessAudio(DOMAIN sessions,
                       { [decodable |-> TRUE,
                          frames |-> [k \in 1..n |->
                                         HistoryAudio(heap[sessions[uuid4(0)]].total_frames + k)],
                          tail |-> 0] : n \in 1..2 },
                       HistoryFrames)
       /\ UNCHANGED apiVars
    \/ /\ Pass({SessionClock}, SessionClock)
       /\ UNCHANGED apiVars

SpecHistory == InitSession /\ [][NextHistory]_vars

---------------------------------------------------------------------------
(* The registry: sessions created, found again, fed, removed and swept.    *)

\* a session of the registry processes at most this many frames
RegistryFrames == 1
\* the clock of the registry stops advancing here
RegistryClock == 300001
\* the clock advances by a session timeout or by a millisecond more
RegistrySteps == {ServiceConfig.session_timeout_ms, ServiceConfig.session_timeout_ms + 1}

\* the state after SocketVADService()
InitRegistry ==
    /\ now = 0
    /\ NoApi
    /\ NoAnalyzer
    /\ NoRace
    /\ heap = <<>>
    /\ sessions = NoSessions
    /\ silero = NoSilero(TRUE)
    /\ nUuid = 0
    /\ ever = {}
    /\ out = NoOut

\* the chunks clients send: one full frame of loud speech
RegistryChunks ==
    { c \in Chunks(1) : Len(c.frames) = 1 /\ c.frames[1].voice > 0 /\ c.tail = 0 }

\* the ids clients present: none, made up, or issued or used before
RegistryIds == {NoId} \cup ClientIds \cup ever

RegistryGetOrCreateSession ==
    /\ GetOrCreateSession(RegistryIds)
    /\ UNCHANGED apiVars

RegistryProcessAudio ==
    /\ ProcessAudio(RegistryIds \ {NoId}, RegistryChunks, RegistryFrames)
    /\ UNCHANGED apiVars

RegistryRemoveSession ==
    /\ RemoveSession(RegistryIds \ {NoId})
    /\ UNCHANGED apiVars

RegistryTick ==
    /\ Pass(RegistrySteps, RegistryClock)
    /\ UNCHANGED apiVars

NextRegistry ==
    \/ RegistryGetOrCreateSession
    \/ RegistryProcessAudio
    \/ RegistryRemoveSession
    \/ CleanupExpiredSessions
    \/ RegistryTick

SpecRegistry == InitRegistry /\ [][NextRegistry]_vars

---------------------------------------------------------------------------
(* Two sessions side by side: chunks for either, and updates of the sample *)
(* rate and of the frame duration, each handler running to completion.     *)

\* each of the two sessions processes at most this many frames
PairFrames == 2

\* the state after SocketVADService() and two init_vad without an id
InitPair ==
    /\ now = 0
    /\ NoApi
    /\ NoAnalyzer
    /\ NoRace
    /\ \E loadable \in BOOLEAN :
           /\ heap = <<NewSession(uuid4(0), ServiceConfig, 0),
                       NewSession(uuid4(1), ServiceConfig, 0)>>
           /\ silero = silero_construct(NoSilero(loadable), ServiceConfig.sample_rate)
    /\ sessions = Put(Put(NoSessions, uuid4(0), 1), uuid4(1), 2)
    /\ nUuid = 2
    /\ ever = {uuid4(0), uuid4(1)}
    /\ out = [NoOut EXCEPT !.op = "get_or_create", !.session_id = uuid4(1), !.ref = 2]

\* the audio of one frame: silence, or speech loud and clear
PairKinds ==
    { [level |-> 100, voice |-> 0],
      [level |-> 3000, voice |-> 3] }

\* the chunks the two clients send: one full frame each
PairChunks ==
    { [decodable |-> TRUE, frames |-> <<f>>, tail |-> 0] : f \in PairKinds }

\* the configurations update_vad_config is called with
PairUpdates ==
    { [sample_rate |-> r] : r \in {8000, 16000} }
    \cup { [frame_duration_ms |-> d] : d \in {20} }

PairProcessAudio ==
    /\ ProcessAudio(DOMAIN sessions, PairChunks, PairFrames)
    /\ UNCHANGED apiVars

PairUpdateVadConfig ==
    /\ UpdateVadConfig({uuid4(0)}, PairUpdates)
    /\ UNCHANGED apiVars

PairTick ==
    /\ Pass({SessionClock}, SessionClock)
    /\ UNCHANGED apiVars

NextPair ==
    \/ PairProcessAudio
    \/ PairUpdateVadConfig
    \/ PairTick

SpecPair == InitPair /\ [][NextPair]_vars

---------------------------------------------------------------------------
(* Two sessions side by side, either of them fed chunks and either of them *)
(* given a new sample rate, each handler running to completion.            *)

NextRate ==
    \/ /\ ProcessAudio(DOMAIN sessions, PairChunks, PairFrames)
       /\ UNCHANGED apiVars
    \/ /\ UpdateVadConfig(DOMAIN sessions, { u \in PairUpdates : Has(u, "sample_rate") })
       /\ UNCHANGED apiVars

SpecRate == InitPair /\ [][NextRate]_vars

---------------------------------------------------------------------------
(* One session through its life: fed, reconfigured (a client's values are  *)
(* passed on as they are, an aggressiveness of 5 included), left idle, fed *)
(* again, and swept.                                                       *)

NextLife ==
    \/ /\ ProcessAudio(ever, PairChunks, PairFrames)
       /\ UNCHANGED apiVars
    \/ /\ UpdateVadConfig(ever, { [aggressiveness |-> a] : a \in {1, 5} }
                                 \cup { [use_webrtc_vad |-> b] : b \in BOOLEAN }
                                 \cup { [use_silero_vad |-> b] : b \in BOOLEAN }
                                 \cup { [sample_rate |-> r] : r \in {8000} })
       /\ UNCHANGED apiVars
    \/ CleanupExpiredSessions
    \/ /\ Pass(RegistrySteps, RegistryClock)
       /\ UNCHANGED apiVars

SpecLife == InitSession /\ [][NextLife]_vars

---------------------------------------------------------------------------
(* The socket event handlers init_vad and process_audio of api.py, with    *)
(* their bookkeeping in active_sessions and the process-wide analyzer      *)
(* audio_analysis_service (an), each handler running to completion.        *)

\* a session of the handlers processes at most this many frames
HandlerFrames == 1
\* the process-wide analyzer is given at most this many levels
HandlerSamples == 2

\* the process_audio messages clients send: session_id present or not, and
\* one of: neither 'audio' nor 'level', an 'audio' payload, a numeric 'level'
Messages ==
    { [session_id |-> id, kind |-> k, audio |-> c, level |-> l] :
        id \in {NoId} \cup ClientIds \cup ever,
        k \in {"none", "audio", "level"},
        c \in RegistryChunks,
        l \in {3000} }

\* the state after the import of api.py
InitHandler ==
    /\ now = 0
    /\ NoAnalyzer
    /\ NoRace
    /\ heap = <<>>
    /\ sessions = NoSessions
    /\ silero = NoSilero(TRUE)
    /\ nUuid = 0
    /\ ever = {}
    /\ out = NoOut
    /\ active_sessions = NoSessions

\* handle_init_vad(data)
HandleInitVad ==
    /\ \E sid \in {NoId} \cup ClientIds \cup ever : GetOrCreateSession({sid})
    /\ active_sessions' = Put(active_sessions, out'.session_id,
                              [client_id |-> 1, created_at |-> now, last_activity |-> now])

\* lines 190-191: the activity time of a session the handlers know
touched(active, session_id, tnow) ==
    IF session_id \in DOMAIN active
    THEN [active EXCEPT ![session_id].last_activity = tnow]
    ELSE active

\* the event a handler emits that is not a result of the service
Emitted(session_id, event, error) ==
    [NoOut EXCEPT !.op = "handle_process_audio", !.arg = session_id,
                  !.result = [NoResult EXCEPT !.event = event, !.error = error]]

\* handle_process_audio(data)
HandleProcessAudio ==
    \E msg \in Messages :
        IF msg.session_id = NoId
        THEN /\ out' = Emitted(NoId, "error", "Missing session_id")
             /\ UNCHANGED <<now, anVars, raceVars, apiVars,
                            heap, sessions, silero, nUuid, ever>>
        ELSE /\ active_sessions' = touched(active_sessions, msg.session_id, now)
             /\ CASE msg.kind = "level" ->
                       /\ Len(an.samples) < HandlerSamples
                       /\ an' = add_audio_sample(an, msg.level, now, now).an
                       /\ out' = Emitted(msg.session_id, "vad_result", "")
                       /\ UNCHANGED <<now, obs, window, belowRun, raceVars,
                                      heap, sessions, silero, nUuid, ever>>
                  [] msg.kind = "none" ->
                       /\ out' = Emitted(msg.session_id, "error", "Missing audio data")
                       /\ UNCHANGED <<now, anVars, raceVars,
                                      heap, sessions, silero, nUuid, ever>>
                  [] msg.kind = "audio" ->
                       ProcessAudio({msg.session_id}, {msg.audio}, HandlerFrames)

HandlerTick ==
    /\ Pass({SessionClock}, SessionClock)
    /\ UNCHANGED apiVars

NextHandler ==
    \/ HandleInitVad
    \/ HandleProcessAudio
    \/ HandlerTick

SpecHandler == InitHandler /\ [][NextHandler]_vars

---------------------------------------------------------------------------
(* Two process_audio events for one session, handled in two threads        *)
(* (async_mode 'threading'). Each chunk holds one full frame. A thread may *)
(* be preempted between the statements of process_audio_chunk and          *)
(* _process_frame named at the steps below; no lock is held anywhere.      *)

Handlers == {1, 2}

\* the two threads process at most this many frames altogether
RaceFrames == 4

\* a handler thread: its position and the locals of its call
IdleHandler ==
    [ pc |-> "idle", frame |-> [level |-> 0, voice |-> 0], timestamp |-> 0,
      total_frames |-> 0, votes |-> NoVotes, result |-> NoResult ]

Settled(h) == threads[h].pc \in {"idle", "done"}

\* the session both events name
RaceSession == sessions[uuid4(0)]

\* the state after SocketVADService() and one init_vad without an id
InitChunkRace ==
    /\ now = 0
    /\ NoApi
    /\ NoAnalyzer
    /\ heap = <<NewSession(uuid4(0), ServiceConfig, 0)>>
    /\ silero = silero_construct(NoSilero(TRUE), ServiceConfig.sample_rate)
    /\ sessions = Put(NoSessions, uuid4(0), 1)
    /\ nUuid = 1
    /\ ever = {uuid4(0)}
    /\ out = [NoOut EXCEPT !.op = "get_or_create", !.session_id = uuid4(0), !.ref = 1]
    /\ threads = [h \in Handlers |-> IdleHandler]
    /\ base = [sess |-> heap[1], sil |-> silero, now |-> 0,
               frames |-> [h \in Handlers |-> IdleHandler.frame]]

\* two process_audio events arrive and are handed to the two threads
Dispatch ==
    /\ \A h \in Handlers : Settled(h)
    /\ heap[RaceSession].total_frames + Cardinality(Handlers) <= RaceFrames
    /\ \E fs \in [Handlers -> FrameKinds] :
           /\ threads' = [h \in Handlers |->
                             [IdleHandler EXCEPT !.pc = "start", !.frame = fs[h]]]
           /\ base' = [sess |-> heap[RaceSession], sil |-> silero, now |-> now, frames |-> fs]
    /\ out' = [NoOut EXCEPT !.op = "dispatch"]
    /\ UNCHANGED <<now, anVars, apiVars, heap, sessions, silero, nUuid, ever>>

\* lines 126-127 and the read of self.total_frames in line 192
Begin(h) ==
    /\ threads[h].pc = "start"
    /\ heap' = [heap EXCEPT ![RaceSession] = update_activity(@, now)]
    /\ threads' = [threads EXCEPT ![h].pc = "loaded",
                                  ![h].timestamp = now,
                                  ![h].total_frames = heap[RaceSession].total_frames]
    /\ UNCHANGED <<now, anVars, apiVars, sessions, silero, nUuid, ever, out, base>>

\* the write of self.total_frames in line 192
Count(h) ==
    /\ threads[h].pc = "loaded"
    /\ heap' = [heap EXCEPT ![RaceSession].total_frames = threads[h].total_frames + 1]
    /\ threads' = [threads EXCEPT ![h].pc = "counted"]
    /\ UNCHANGED <<now, anVars, apiVars, sessions, silero, nUuid, ever, out, base>>

\* lines 199-200: the call of add_audio_sample
Measure(h) ==
    /\ threads[h].pc = "counted"
    /\ LET r == add_audio_sample(heap[RaceSession].audio_service, threads[h].frame.level,
                                 threads[h].timestamp, now)
       IN  /\ heap' = [heap EXCEPT ![RaceSession].audio_service = r.an]
           /\ threads' = [threads EXCEPT ![h].pc = "measured",
                                         ![h].votes.rms = r.is_speech]
    /\ UNCHANGED <<now, anVars, apiVars, sessions, silero, nUuid, ever, out, base>>

\* lines 202-221: the calls of the bitstream and the neural classifier
Classify(h) ==
    /\ threads[h].pc = "measured"
    /\ LET sess == heap[RaceSession]
           f == full_frame(sess, threads[h].frame)
           sr == frame_silero(sess, silero, f)
       IN  /\ silero' = sr.sil
           /\ threads' = [threads EXCEPT ![h].pc = "classified",
                                         ![h].votes.webrtc = frame_webrtc(sess, f),
                                         ![h].votes.silero = sr.is_speech,
                                         ![h].votes.vad = sess.webrtc_vad,
                                         ![h].votes.webrtc_failed = webrtc_raises(sess, f),
                                         ![h].votes.silero_failed = sr.error,
                                         ![h].votes.silero_buffering = sr.buffering]
    /\ UNCHANGED <<now, anVars, apiVars, heap, sessions, nUuid, ever, out, base>>

\* lines 223-279 and, back in process_audio_chunk, lines 146-179
Store(h) ==
    /\ threads[h].pc = "classified"
    /\ LET sess == heap[RaceSession]
           sf == store_frame(sess, full_frame(sess, threads[h].frame),
                             threads[h].timestamp, threads[h].votes)
           fc == finish_chunk(sf.sess, <<sf.result>>, threads[h].timestamp)
       IN  /\ heap' = [heap EXCEPT ![RaceSession] = fc.sess]
           /\ threads' = [threads EXCEPT ![h].pc = "done", ![h].result = fc.result]
           /\ out' = [NoOut EXCEPT !.op = "process_audio", !.arg = sess.session_id,
                                   !.session_id = sess.session_id, !.ref = RaceSession,
                                   !.found = TRUE, !.was_speaking = sess.is_speaking,
                                   !.result = fc.result, !.results = <<sf.result>>]
    /\ UNCHANGED <<now, anVars, apiVars, sessions, silero, nUuid, ever, base>>

\* time passes between the pairs of events
ChunkRaceTick ==
    /\ \A h \in Handlers : Settled(h)
    /\ Pass({SessionClock}, SessionClock)
    /\ UNCHANGED apiVars

NextChunkRace ==
    \/ Dispatch
    \/ \E h \in Handlers : Begin(h)
    \/ \E h \in Handlers : Count(h)
    \/ \E h \in Handlers : Measure(h)
    \/ \E h \in Handlers : Classify(h)
    \/ \E h \in Handlers : Store(h)
    \/ ChunkRaceTick

SpecChunkRace == InitChunkRace /\ [][NextChunkRace]_vars

---------------------------------------------------------------------------
(* get_or_create_session in a handler thread while the cleanup timer's     *)
(* thread runs _cleanup_expired_sessions. Either thread may be preempted   *)
(* between the statements named at the steps below; no lock is held.       *)

\* the handler's call and the timer's call, before either has run
IdleCalls ==
    [ get   |-> [pc |-> "idle", arg |-> NoId, id |-> NoId, ref |-> 0,
                 replaced |-> FALSE, created |-> FALSE, raised |-> FALSE],
      sweep |-> [pc |-> "idle", expired |-> <<>>, raised |-> FALSE] ]

\* the orders in which a dict's keys can be listed
RECURSIVE Listings(_)
Listings(keys) ==
    IF keys = {} THEN {<<>>}
    ELSE UNION { { <<k>> \o rest : rest \in Listings(keys \ {k}) } : k \in keys }

\* the state after SocketVADService()
InitSweepRace ==
    /\ now = 0
    /\ NoApi
    /\ NoAnalyzer
    /\ heap = <<>>
    /\ sessions = NoSessions
    /\ silero = NoSilero(TRUE)
    /\ nUuid = 0
    /\ ever = {}
    /\ out = NoOut
    /\ threads = IdleCalls
    /\ base = <<>>

\* an init_vad event arrives and its handler is scheduled
GetCall ==
    /\ threads.get.pc \in {"idle", "done"}
    /\ \E sid \in {NoId} \cup ClientIds :
           threads' = [threads EXCEPT !.get = [IdleCalls.get EXCEPT !.pc = "check",
                                                                    !.arg = sid]]
    /\ UNCHANGED <<now, anVars, apiVars, regVars, base>>

\* lines 387-391: the lookup, and the return of a session that is still valid
GetCheck ==
    /\ threads.get.pc = "check"
    /\ LET sid == threads.get.arg
       IN  IF session_is_valid(sessions, heap, sid, now)
           THEN /\ heap' = [heap EXCEPT ![sessions[sid]] = update_activity(@, now)]
                /\ threads' = [threads EXCEPT !.get.pc = "done", !.get.id = sid,
                                              !.get.ref = sessions[sid]]
                /\ out' = [NoOut EXCEPT !.op = "get_or_create", !.arg = sid,
                                        !.session_id = sid, !.ref = sessions[sid],
                                        !.found = TRUE, !.known = TRUE,
                                        !.idle = now - heap[sessions[sid]].last_activity]
                /\ UNCHANGED nUuid
           ELSE /\ threads' = [threads EXCEPT !.get.pc = "create",
                                              !.get.id = new_session_id(sid, nUuid),
                                              !.get.replaced = sid \in DOMAIN sessions]
                /\ nUuid' = IF sid = NoId THEN nUuid + 1 ELSE nUuid
                /\ UNCHANGED <<heap, out>>
    /\ UNCHANGED <<now, anVars, apiVars, sessions, silero, ever, base>>

\* line 395: the session is constructed and stored
GetStore ==
    /\ threads.get.pc = "create"
    /\ Len(heap) < MaxObjects
    /\ LET id == threads.get.id
           obj == NewSession(id, ServiceConfig, now)
       IN  /\ heap' = Append(heap, obj)
           /\ sessions' = Put(sessions, id, Len(heap) + 1)
           /\ silero' = IF obj.config.use_silero_vad
                        THEN silero_construct(silero, obj.config.sample_rate)
                        ELSE silero
           /\ ever' = ever \cup {id}
           /\ threads' = [threads EXCEPT !.get.pc = "return", !.get.ref = Len(heap) + 1,
                                         !.get.created = TRUE]
    /\ UNCHANGED <<now, anVars, apiVars, nUuid, out, base>>

\* line 397: the session is looked up again to be returned (KeyError without it)
GetReturn ==
    /\ threads.get.pc = "return"
    /\ LET id == threads.get.id
           there == id \in DOMAIN sessions
       IN  /\ threads' = [threads EXCEPT !.get.pc = "done", !.get.raised = ~there]
           /\ out' = [NoOut EXCEPT !.op = "get_or_create", !.arg = threads.get.arg,
                                   !.session_id = id,
                                   !.ref = IF there THEN sessions[id] ELSE 0,
                                   !.known = threads.get.replaced,
                                   !.result = [NoResult EXCEPT !.error =
                                                  IF there THEN "" ELSE "raised"]]
    /\ UNCHANGED <<now, anVars, apiVars, heap, sessions, silero, nUuid, ever, base>>

\* lines 421-424: the timer fires and the expired keys are listed
SweepCollect ==
    /\ threads.sweep.pc \in {"idle", "done"}
    /\ \E listing \in Listings(expired_sessions(sessions, heap, now)) :
           threads' = [threads EXCEPT !.sweep = [pc |-> IF listing = <<>> THEN "done"
                                                                          ELSE "delete",
                                                 expired |-> listing,
                                                 raised |-> FALSE]]
    /\ UNCHANGED <<now, anVars, apiVars, regVars, base>>

\* lines 427-428: one listed key is deleted (KeyError ends the sweep, line 433)
SweepDelete ==
    /\ threads.sweep.pc = "delete"
    /\ LET sid == Head(threads.sweep.expired)
           rest == Tail(threads.sweep.expired)
       IN  IF sid \in DOMAIN sessions
           THEN /\ sessions' = Del(sessions, sid)
                /\ threads' = [threads EXCEPT !.sweep.expired = rest,
                                              !.sweep.pc = IF rest = <<>> THEN "done"
                                                                          ELSE "delete"]
           ELSE /\ threads' = [threads EXCEPT !.sweep.pc = "done", !.sweep.raised = TRUE]
                /\ UNCHANGED sessions
    /\ out' = [NoOut EXCEPT !.op = "cleanup"]
    /\ UNCHANGED <<now, anVars, apiVars, heap, silero, nUuid, ever, base>>

SweepRaceTick ==
    /\ Pass(RegistrySteps, RegistryClock)
    /\ UNCHANGED apiVars

NextSweepRace ==
    \/ GetCall
    \/ GetCheck
    \/ GetStore
    \/ GetReturn
    \/ SweepCollect
    \/ SweepDelete
    \/ SweepRaceTick

SpecSweepRace == InitSweepRace /\ [][NextSweepRace]_vars

---------------------------------------------------------------------------
(* process_audio in a handler thread, other handlers creating and removing *)
(* sessions, and the timer thread running _cleanup_expired_sessions and    *)
(* re-arming its timer. The process_audio call may be preempted between    *)
(* its lookup and the session's process_audio_chunk, the sweep between the *)
(* statements named at the steps below; no lock is held.                   *)

\* the process_audio call and the timer's thread, before either has run;
\* stale: the session was no longer in the mapping when its chunk was processed;
\* armed: the timers started and not yet fired; seen: the keys when the scan
\* began; due: the sessions of the mapping that had expired by then;
\* wrong: the run deleted a session that had not expired; runs: whether a
\* run of the sweep has ended
IdleRemoval ==
    [ call  |-> [pc |-> "idle", arg |-> NoId, ref |-> 0, stale |-> FALSE],
      sweep |-> [pc |-> "waiting", armed |-> 1, seen |-> {}, due |-> {},
                 expired |-> <<>>, raised |-> FALSE, wrong |-> FALSE, runs |-> 0] ]

\* the state after SocketVADService(): the first timer is armed (line 368)
InitRemoval ==
    /\ now = 0
    /\ NoApi
    /\ NoAnalyzer
    /\ heap = <<>>
    /\ sessions = NoSessions
    /\ silero = NoSilero(TRUE)
    /\ nUuid = 0
    /\ ever = {}
    /\ out = NoOut
    /\ threads = IdleRemoval
    /\ base = <<>>

\* lines 410-411: a process_audio event is handled and the session looked up
CallLookup ==
    /\ threads.call.pc \in {"idle", "done"}
    /\ \E sid \in ever :
           IF sid \in DOMAIN sessions
           THEN /\ threads' = [threads EXCEPT !.call = [pc |-> "chunk", arg |-> sid,
                                                        ref |-> sessions[sid],
                                                        stale |-> FALSE]]
                /\ UNCHANGED out
           ELSE /\ threads' = [threads EXCEPT !.call = [pc |-> "done", arg |-> sid,
                                                        ref |-> 0, stale |-> FALSE]]
                /\ out' = [NoOut EXCEPT !.op = "process_audio", !.arg = sid,
                                        !.result = [NoResult EXCEPT !.error = "not found"]]
    /\ UNCHANGED <<now, anVars, apiVars, heap, sessions, silero, nUuid, ever, base>>

CallChunk_Reinserting ==
    /\ threads.call.pc = "chunk"
    /\ heap[threads.call.ref].total_frames < RegistryFrames
    /\ \E chunk \in RegistryChunks :
           LET r == process_audio_chunk(heap[threads.call.ref], silero, chunk, now)
           IN  /\ heap' = [heap EXCEPT ![threads.call.ref] = r.sess]
               /\ silero' = r.sil
               /\ out' = [NoOut EXCEPT !.op = "process_audio", !.arg = threads.call.arg,
                                       !.session_id = threads.call.arg,
                                       !.ref = threads.call.ref, !.found = TRUE,
                                       !.result = r.result, !.results = r.results]
    /\ sessions' = Put(sessions, threads.call.arg, threads.call.ref)
    /\ threads' = [threads EXCEPT !.call.pc = "done",
                                  !.call.stale = threads.call.ref \notin
                                                     { sessions[k] : k \in DOMAIN sessions }]
    /\ UNCHANGED <<now, anVars, apiVars, nUuid, ever, base>>

\* line 412: the session's process_audio_chunk, on the reference obtained
CallChunk ==
    /\ threads.call.pc = "chunk"
    /\ heap[threads.call.ref].total_frames < RegistryFrames
    /\ \E chunk \in RegistryChunks :
           Processed(threads.call.arg, threads.call.ref,
                     process_audio_chunk(heap[threads.call.ref], silero, chunk, now))
    /\ threads' = [threads EXCEPT !.call.pc = "done",
                                  !.call.stale = threads.call.ref \notin
                                                     { sessions[k] : k \in DOMAIN sessions }]
    /\ UNCHANGED <<apiVars, base>>

\* the sessions of the mapping that have expired
expired_refs(dict, objs, tnow) ==
    { dict[sid] : sid \in expired_sessions(dict, objs, tnow) }

\* the timer fires: _cleanup_expired_sessions begins to scan the mapping
\* (lines 418-421)
TimerFires ==
    /\ threads.sweep.pc = "waiting"
    /\ threads.sweep.armed > 0
    /\ threads' = [threads EXCEPT !.sweep.pc = "scan",
                                  !.sweep.armed = @ - 1,
                                  !.sweep.seen = DOMAIN sessions,
                                  !.sweep.due = expired_refs(sessions, heap, now),
                                  !.sweep.expired = <<>>,
                                  !.sweep.raised = FALSE,
                                  !.sweep.wrong = FALSE]
    /\ UNCHANGED <<now, anVars, apiVars, regVars, base>>

\* lines 421-424: the scan ends. When the keys changed while the dict was
\* iterated, the iteration raises RuntimeError unless it was over already
SweepList ==
    /\ threads.sweep.pc = "scan"
    /\ \/ /\ DOMAIN sessions # threads.sweep.seen
          /\ threads' = [threads EXCEPT !.sweep.pc = "rearm", !.sweep.raised = TRUE,
                                        !.sweep.seen = {}]
       \/ \E listing \in Listings(expired_sessions(sessions, heap, now)) :
              threads' = [threads EXCEPT !.sweep.expired = listing,
                                         !.sweep.seen = {},
                                         !.sweep.pc = IF listing = <<>> THEN "rearm"
                                                                        ELSE "delete"]
    /\ UNCHANGED <<now, anVars, apiVars, regVars, base>>

\* lines 427-428: one listed key is deleted (KeyError ends the body, line 433)
SweepRemove ==
    /\ threads.sweep.pc = "delete"
    /\ LET sid == Head(threads.sweep.expired)
           rest == Tail(threads.sweep.expired)
       IN  IF sid \in DOMAIN sessions
           THEN /\ sessions' = Del(sessions, sid)
                /\ threads' = [threads EXCEPT
                                 !.sweep.expired = rest,
                                 !.sweep.wrong = @ \/ ~is_expired(heap[sessions[sid]], now),
                                 !.sweep.pc = IF rest = <<>> THEN "rearm" ELSE "delete"]
           ELSE /\ threads' = [threads EXCEPT !.sweep.pc = "rearm", !.sweep.raised = TRUE,
                                              !.sweep.expired = <<>>]
                /\ UNCHANGED sessions
    /\ UNCHANGED <<now, anVars, apiVars, heap, silero, nUuid, ever, out, base>>

SweepRearm_OnSuccess ==
    /\ threads.sweep.pc = "rearm"
    /\ threads' = [threads EXCEPT !.sweep = [IdleRemoval.sweep EXCEPT
                                     !.armed = IF threads.sweep.raised
                                               THEN threads.sweep.armed
                                               ELSE threads.sweep.armed + 1,
                                     !.raised = threads.sweep.raised,
                                     !.runs = 1]]
    /\ out' = [NoOut EXCEPT !.op = "cleanup"]
    /\ UNCHANGED <<now, anVars, apiVars, heap, sessions, silero, nUuid, ever, base>>

\* lines 435-437: finally, _start_cleanup_timer() arms the next timer
SweepRearm ==
    /\ threads.sweep.pc = "rearm"
    /\ threads' = [threads EXCEPT !.sweep = [IdleRemoval.sweep EXCEPT
                                     !.armed = threads.sweep.armed + 1,
                                     !.raised = threads.sweep.raised,
                                     !.runs = 1]]
    /\ out' = [NoOut EXCEPT !.op = "cleanup"]
    /\ UNCHANGED <<now, anVars, apiVars, heap, sessions, silero, nUuid, ever, base>>

\* the ids the clients of this scenario present to init_vad
RemovalIds == ClientIds \cup {102}

\* other handlers, each running to completion: init_vad and disconnect
RemovalGetOrCreateSession ==
    /\ GetOrCreateSession(RemovalIds)
    /\ UNCHANGED apiVars

RemovalRemoveSession ==
    /\ RemoveSession(ever)
    /\ UNCHANGED apiVars

RemovalTick ==
    /\ Pass({RegistryClock}, RegistryClock)
    /\ UNCHANGED apiVars

NextRemoval ==
    \/ CallLookup
    \/ CallChunk
    \/ RemovalGetOrCreateSession
    \/ RemovalRemoveSession
    \/ TimerFires
    \/ SweepList
    \/ SweepRemove
    \/ SweepRearm
    \/ RemovalTick

SpecRemoval == InitRemoval /\ [][NextRemoval]_vars

\* the timer fires when its interval has passed, and the thread it starts
\* runs _cleanup_expired_sessions to its end
SpecRemovalLive ==
    /\ SpecRemoval
    /\ WF_vars(TimerFires)
    /\ WF_vars(SweepList)
    /\ WF_vars(SweepRemove)
    /\ WF_vars(SweepRearm)

---------------------------------------------------------------------------
(* Properties of the analyzer.                                             *)

\* C1: a sample submitted while Calibrating completes the calibration exactly
\* when its timestamp is calibration_duration_ms or more after the calibration
\* started; the completed analyzer is no longer calibrating, its noise_floor
\* and std_dev are the mean and the standard deviation of all the levels of
\* the window when these are 5 or more, else 0.02 and 0.01, and the current
\* threshold is noise_floor + std_dev * sensitivity_factor.
C1_CalibrationCompletes ==
    (obs.op = "sample" /\ ~obs.ready) =>
        /\ an.calibration_complete <=>
               (obs.timestamp - an.last_calibration_time >= DEFAULT_CONFIG.calibration_duration_ms)
        /\ an.calibration_complete = ~an.is_calibrating
        /\ an.calibration_complete =>
               /\ IF Len(window) >= 5
                  THEN /\ an.noise_floor = SumSeq(window) \div Len(window)
                       /\ an.std_dev = stdev(window)
                  ELSE /\ an.noise_floor = 200
                       /\ an.std_dev = 100
               /\ get_current_threshold(an) =
                      an.noise_floor + (an.std_dev * an.sensitivity_factor) \div FactorScale

\* C1 witness: a calibration completed on 5 levels that are not all equal
C1_Witness ==
    /\ obs.op = "sample" /\ ~obs.ready
    /\ an.calibration_complete
    /\ Len(window) = 5
    /\ an.std_dev > 0
    /\ an.noise_floor > 100

\* C2: a classified sample emits SPEECH_END, once, exactly when the confirmed
\* state was Speaking and the sample is the consecutive_frames_threshold-th
\* consecutive classified sample that is not above the threshold; a longer
\* run of silent samples emits no further SPEECH_END.
C2_OneSpeechEnd ==
    (obs.op = "sample" /\ obs.ready) =>
        /\ (obs.events = <<SPEECH_END>>) <=>
               (obs.wasSpeaking /\ belowRun = an.config.consecutive_frames_threshold)
        /\ \A i \in 1..Len(obs.events) :
               obs.events[i] = SPEECH_END => (i = 1 /\ Len(obs.events) = 1)
        /\ belowRun > an.config.consecutive_frames_threshold =>
               (~obs.wasSpeaking /\ obs.events # <<SPEECH_END>>)

\* C2 witness: the second silent sample in the Speaking state emitted SPEECH_END
C2_Witness ==
    /\ obs.op = "sample" /\ obs.ready /\ obs.wasSpeaking
    /\ belowRun = 2
    /\ obs.events = <<SPEECH_END>>
    /\ ~an.last_is_speech


---------------------------------------------------------------------------
(* Properties of a session.                                                *)

\* the frame results the last process_audio_chunk call produced
LastResults == IF out.op = "process_audio" THEN out.results ELSE <<>>

\* the classifiers a configuration enables, with their weights
EnabledClassifiers(config) ==
    { c \in {"rms", "webrtc", "silero"} :
        \/ c = "rms" /\ config.use_rms_vad
        \/ c = "webrtc" /\ config.use_webrtc_vad
        \/ c = "silero" /\ config.use_silero_vad }

WeightOf(config, c) ==
    CASE c = "rms" -> config.rms_weight
      [] c = "webrtc" -> config.webrtc_weight
      [] c = "silero" -> config.silero_weight

VoteOf(r, c) ==
    CASE c = "rms" -> r.is_speech_rms
      [] c = "webrtc" -> r.is_speech_webrtc
      [] c = "silero" -> r.is_speech_silero

RECURSIVE TotalWeight(_, _)
TotalWeight(config, cs) ==
    IF cs = {} THEN 0
    ELSE LET c == CHOOSE x \in cs : TRUE
         IN  WeightOf(config, c) + TotalWeight(config, cs \ {c})

RECURSIVE VotedWeight(_, _)
VotedWeight(r, cs) ==
    IF cs = {} THEN 0
    ELSE LET c == CHOOSE x \in cs : TRUE
         IN  (IF VoteOf(r, c) THEN WeightOf(r.config, c) ELSE 0) + VotedWeight(r, cs \ {c})

\* C3: for every frame processed while the enabled classifiers have a positive
\* total weight, ensemble_score is the weight of the enabled classifiers that
\* voted speech divided by the weight of all enabled classifiers, and the
\* frame's decision is speech exactly when that score exceeds 0.5.
C3_EnsembleScore ==
    \A i \in 1..Len(LastResults) :
        LET r == LastResults[i]
            cs == EnabledClassifiers(r.config)
            total == TotalWeight(r.config, cs)
            voted == VotedWeight(r, cs)
        IN  total > 0 =>
                /\ r.ensemble_score[2] > 0
                /\ r.ensemble_score[1] * total = voted * r.ensemble_score[2]
                /\ r.is_speech <=> (2 * r.ensemble_score[1] > r.ensemble_score[2])

\* the example: rms true (0.2), bitstream false (0.4), neural true (0.4) give
\* 0.6 and the decision speech
C3_Witness ==
    \E i \in 1..Len(LastResults) :
        LET r == LastResults[i]
        IN  /\ EnabledClassifiers(r.config) = {"rms", "webrtc", "silero"}
            /\ r.config.rms_weight = 200 /\ r.config.webrtc_weight = 400
            /\ r.config.silero_weight = 400
            /\ r.is_speech_rms /\ ~r.is_speech_webrtc /\ r.is_speech_silero
            /\ r.ensemble_score = <<600, 1000>>
            /\ r.is_speech

\* the number of frames of the last chunk the ensemble classified as speech
LastSpeechFrames == Cardinality({ i \in 1..Len(LastResults) : LastResults[i].is_speech })

\* C4: a chunk of n >= 1 full frames, s of them speech, processed by a session
\* that was Silent leaves it Speaking exactly when s/n > 0.5; then
\* speech_start_time is the call's timestamp and the call returns a
\* speech_start event with that timestamp, confidence s/n and the session's id.
C4_SilentToSpeaking ==
    (out.op = "process_audio" /\ out.found /\ ~out.was_speaking /\ Len(out.results) >= 1) =>
        LET n == Len(out.results)
            s == LastSpeechFrames
            sess == heap[out.ref]
        IN  /\ sess.is_speaking <=> (2 * s > n)
            /\ (out.result.event = "speech_start") <=> (2 * s > n)
            /\ 2 * s > n =>
                   /\ sess.speech_start_time = now
                   /\ out.result.timestamp = now
                   /\ out.result.confidence = <<s, n>>
                   /\ out.result.session_id = sess.session_id
                   /\ out.result.session_id = out.arg

C4_Witness ==
    /\ out.op = "process_audio" /\ out.found /\ ~out.was_speaking
    /\ Len(out.results) = 2 /\ LastSpeechFrames = 2
    /\ out.result.event = "speech_start"
    /\ heap[out.ref].is_speaking

\* C8: once update_vad_config has been given an aggressiveness, every frame
\* the session processes afterwards is classified by a bitstream classifier
\* of the configured aggressiveness (stated for the frames processed while
\* that classifier is enabled, where its vote enters the decision).
C8_AggressivenessApplied ==
    \A i \in 1..Len(LastResults) :
        LET r == LastResults[i]
        IN  (r.config.use_webrtc_vad
             /\ r.config.aggressiveness # ServiceConfig.aggressiveness) =>
                r.webrtc_vad = Vad(r.config.aggressiveness)

---------------------------------------------------------------------------
(* Properties of the registry.                                             *)

\* the references the mapping holds
Reachable(dict) == { dict[k] : k \in DOMAIN dict }

\* the step is a call get_or_create_session(sid)
IsGetOrCreate(sid) == out'.op = "get_or_create" /\ out'.arg = sid

\* the step constructed a UserSession and stored it under id
CreatesSession(id) ==
    /\ Len(heap') = Len(heap) + 1
    /\ SubSeq(heap', 1, Len(heap)) = heap
    /\ out'.ref = Len(heap')
    /\ out'.session_id = id
    /\ heap'[out'.ref].session_id = id
    /\ sessions' = Put(sessions, id, out'.ref)

\* C5: every get_or_create_session(None) constructs a session, stores it
\* under an id that is not and never was a key of the mapping, and returns
\* that id with the new session.
C5_FreshId ==
    [][ IsGetOrCreate(NoId) =>
            /\ out'.session_id # NoId
            /\ out'.session_id \notin ever
            /\ out'.session_id \notin DOMAIN sessions
            /\ DOMAIN sessions \subseteq ever
            /\ CreatesSession(out'.session_id) ]_vars

\* a second generated id while the first is still a key
C5_Witness ==
    /\ out.op = "get_or_create" /\ out.arg = NoId
    /\ nUuid = 2
    /\ out.session_id \in DOMAIN sessions
    /\ Cardinality(DOMAIN sessions) = 2
    /\ sessions[out.session_id] = out.ref

\* C6: get_or_create_session(X) for a key X whose session has been inactive
\* for at most session_timeout_ms returns the very object the mapping holds,
\* changes nothing of it but last_activity, which becomes the current time,
\* and leaves the mapping as it was.
C6_SameSession ==
    [][ \A X \in DOMAIN sessions :
            ( /\ IsGetOrCreate(X)
              /\ now - heap[sessions[X]].last_activity
                     <= heap[sessions[X]].config.session_timeout_ms ) =>
                /\ out'.session_id = X
                /\ out'.ref = sessions[X]
                /\ sessions' = sessions
                /\ heap' = [heap EXCEPT ![sessions[X]].last_activity = now] ]_vars

\* the session had processed a frame and had been idle for exactly the timeout
C6_Witness ==
    /\ out.op = "get_or_create" /\ out.found
    /\ out.idle = ServiceConfig.session_timeout_ms
    /\ heap[out.ref].total_frames > 0
    /\ heap[out.ref].last_activity = now
    /\ sessions[out.arg] = out.ref

\* the object most recently constructed under an id
LatestRef(objs, id) ==
    CHOOSE r \in 1..Len(objs) :
        /\ objs[r].session_id = id
        /\ \A q \in 1..Len(objs) : objs[q].session_id = id => q <= r

\* C7: get_or_create_session(X) for an id X whose session has been inactive
\* for more than session_timeout_ms, be it still in the mapping or already
\* removed from it, constructs a session under X with zero counters, Silent,
\* its analyzer calibrating; the mapping no longer leads to the old object.
C7_ExpiredReplaced ==
    [][ \A X \in ever :
            LET old == LatestRef(heap, X)
            IN  ( /\ IsGetOrCreate(X)
                  /\ now - heap[old].last_activity > heap[old].config.session_timeout_ms ) =>
                    /\ CreatesSession(X)
                    /\ out'.ref # old
                    /\ old \notin Reachable(sessions')
                    /\ heap'[out'.ref].total_frames = 0
                    /\ heap'[out'.ref].speech_frames = 0
                    /\ heap'[out'.ref].frames = <<>>
                    /\ ~heap'[out'.ref].is_speaking
                    /\ heap'[out'.ref].audio_service = NewAnalyzer(NoConfig, now) ]_vars

\* the expired session had processed a frame and was still in the mapping
C7_Witness ==
    /\ out.op = "get_or_create" /\ out.known /\ ~out.found
    /\ out.idle > ServiceConfig.session_timeout_ms
    /\ out.ref = 2
    /\ heap[1].session_id = out.arg /\ heap[1].total_frames > 0
    /\ heap[2].session_id = out.arg /\ heap[2].total_frames = 0
    /\ sessions[out.arg] = 2

\* the expired session had processed a frame and the sweep had removed it
C7_WitnessSwept ==
    /\ out.op = "get_or_create" /\ ~out.known /\ ~out.found
    /\ out.ref = 2
    /\ heap[1].session_id = out.arg /\ heap[1].total_frames > 0
    /\ now - heap[1].last_activity > ServiceConfig.session_timeout_ms
    /\ sessions[out.arg] = 2

---------------------------------------------------------------------------
(* Properties of concurrent calls.                                         *)

\* the chunk a handler thread was given
RaceChunk(h) == [decodable |-> TRUE, frames |-> <<base.frames[h]>>, tail |-> 0]

\* the two calls run one after the other from the state they were dispatched in
SerialOutcome(first, second) ==
    LET r1 == process_audio_chunk(base.sess, base.sil, RaceChunk(first), base.now)
    IN  process_audio_chunk(r1.sess, r1.sil, RaceChunk(second), base.now)

\* C9: when two concurrent process_audio_chunk calls for one session have both
\* returned, the session's frames, total_frames, speech_frames, analyzer and
\* is_speaking are those of the two calls run in one of the two serial orders,
\* and total_frames has grown by the frames of both.
C9_SerialOutcome ==
    (\A h \in Handlers : threads[h].pc = "done") =>
        /\ \E first \in Handlers :
               LET second == CHOOSE h \in Handlers : h # first
                   serial == SerialOutcome(first, second).sess
                   sess == heap[RaceSession]
               IN  /\ sess.frames = serial.frames
                   /\ sess.total_frames = serial.total_frames
                   /\ sess.speech_frames = serial.speech_frames
                   /\ sess.audio_service = serial.audio_service
                   /\ sess.is_speaking = serial.is_speaking
        /\ heap[RaceSession].total_frames = base.sess.total_frames + Cardinality(Handlers)

\* C10: when get_or_create_session(X) has replaced an expired session by a
\* new one and has returned, and the sweep is not under way, X maps to the
\* new session for as long as that session has not expired.
C10_NewSessionKept ==
    ( /\ threads.get.pc = "done" /\ threads.get.replaced /\ threads.get.created
      /\ threads.sweep.pc \in {"idle", "done"}
      /\ ~is_expired(heap[threads.get.ref], now) ) =>
        /\ ~threads.get.raised
        /\ threads.get.id \in DOMAIN sessions
        /\ sessions[threads.get.id] = threads.get.ref

---------------------------------------------------------------------------
(* Properties of process_audio.                                            *)

\* C14: process_audio for a session id that is not a key of the mapping
\* returns the not-found error, constructs no session and leaves the mapping,
\* every session object and the neural classifier as they were; the value it
\* returns depends on the id alone, so a repeated call returns the same value
\* in the same state.
C14_NotFoundNoOp ==
    [][(out'.op = "process_audio" /\ out'.arg \notin DOMAIN sessions) =>
          /\ out' = [NoOut EXCEPT !.op = "process_audio", !.arg = out'.arg,
                                  !.result = [NoResult EXCEPT !.error = "not found"]]
          /\ heap' = heap
          /\ sessions' = sessions
          /\ silero' = silero
          /\ nUuid' = nUuid
          /\ ever' = ever]_vars

\* a not-found answer was given while another session existed
C14_Witness ==
    /\ out.op = "process_audio"
    /\ ~out.found
    /\ out.result.error = "not found"
    /\ out.arg \notin DOMAIN sessions
    /\ sessions # NoSessions

\* C15: a chunk whose payload does not decode is answered with the error
\* result, no frame is classified, and the session is what it was before the
\* call: last_activity, the counters, the frame history, is_speaking,
\* speech_start_time and the analyzer.
C15_DecodeErrorNoChange ==
    [][(out'.op = "process_audio" /\ out'.result.error = "Invalid audio data format") =>
          /\ out'.results = <<>>
          /\ heap' = heap
          /\ silero' = silero]_vars

---------------------------------------------------------------------------
(* Properties of two sessions side by side.                                *)

\* the classifiers whose call failed on the frame of result r
FailedClassifiers(r) ==
    { c \in {"webrtc", "silero"} :
        \/ c = "webrtc" /\ r.webrtc_failed
        \/ c = "silero" /\ r.silero_failed }

C17_WitnessLater ==
    /\ Len(LastResults) = 1
    /\ LastResults[1].is_speech_webrtc
    /\ Len(heap[out.ref].frames) = 2
    /\ heap[out.ref].frames[1].level = 3000
    /\ ~heap[out.ref].frames[1].is_speech_webrtc

\* the neural classifier failed on a loud frame
C17_WitnessNeural ==
    \E i \in 1..Len(LastResults) :
        LastResults[i].silero_failed /\ LastResults[i].voice >= 2

\* C18: update_vad_config on one session leaves every other session object
\* as it was (config, frame_size, bitstream classifier, analyzer, counters,
\* is_speaking), and with it the buffer, the sample rate and the required
\* window size of the neural classifier the other sessions use.
C18_UpdateStaysInSession ==
    [][(out'.op = "update_vad_config" /\ out'.found) =>
          \A k \in 1..Len(heap) :
              k # out'.ref =>
                  /\ heap'[k] = heap[k]
                  /\ heap[k].silero_vad =>
                         /\ silero'.audio_buffer = silero.audio_buffer
                         /\ silero'.required_samples = silero.required_samples
                         /\ silero'.sample_rate = silero.sample_rate]_vars

\* the chunk outcomes a and b are the same: frame results, returned value and
\* session left behind
SameOutcome(a, b) ==
    /\ a.results = b.results
    /\ a.result = b.result
    /\ a.sess = b.sess

\* C19: processing a chunk for one session changes nothing of what any other
\* session obtains from its next chunk: the frame classifications, the value
\* returned and the session state left behind are what they would have been
\* without that chunk.
C19_Isolated ==
    [][(out'.op = "process_audio" /\ out'.found) =>
          \A k \in 1..Len(heap), chunk \in PairChunks :
              k # out'.ref =>
                  SameOutcome(process_audio_chunk(heap[k], silero, chunk, now),
                              process_audio_chunk(heap'[k], silero', chunk, now))]_vars

\* C20: the frame size of every session is the one its configuration gives:
\* sample_rate * frame_duration_ms / 1000 samples of 2 bytes.
C20_FrameSize ==
    \A k \in 1..Len(heap) : heap[k].frame_size = frame_size_for(heap[k].config)

---------------------------------------------------------------------------
(* Properties of the socket event handlers.                                *)

\* C16: a process_audio message without session_id, or with a session_id but
\* with neither an audio payload nor a level, is answered by an error event
\* and changes nothing: no session, no analyzer of a session, not the
\* process-wide analyzer, not the mapping, and not the handlers' activity
\* bookkeeping for that session id.
C16_InputErrorNoChange ==
    [][(/\ out'.op = "handle_process_audio"
        /\ out'.result.error \in {"Missing session_id", "Missing audio data"}) =>
          /\ out'.result.event = "error"
          /\ heap' = heap
          /\ sessions' = sessions
          /\ silero' = silero
          /\ an' = an
          /\ active_sessions' = active_sessions]_vars

---------------------------------------------------------------------------
(* Properties of removal: remove_session, the sweep and the calls around   *)
(* them.                                                                   *)

\* the process_audio call in progress completes in this step
ChunkCompletes == threads.call.pc = "chunk" /\ threads'.call.pc = "done"

ExpiredInMapping(k) ==
    /\ k \in Reachable(sessions)
    /\ is_expired(heap[k], now)

C13_SweepExact ==
    threads.sweep.pc = "rearm" =>
        /\ \A k \in threads.sweep.due : ~ExpiredInMapping(k)
        /\ ~threads.sweep.wrong

---------------------------------------------------------------------------
(* Properties of remove_session.                                           *)

\* C22: remove_session(X) returns true exactly when X was a key of the
\* mapping; afterwards X is no key, every other entry is what it was and no
\* session object has changed; when X was no key it returns false and the
\* mapping is what it was, so a second remove_session(X) returns false.
C22_RemoveExact ==
    [][(out'.op = "remove_session") =>
          /\ out'.found <=> (out'.arg \in DOMAIN sessions)
          /\ DOMAIN sessions' = (DOMAIN sessions) \ {out'.arg}
          /\ \A k \in DOMAIN sessions' : sessions'[k] = sessions[k]
          /\ ~out'.found => sessions' = sessions
          /\ heap' = heap
          /\ silero' = silero
          /\ ever' = ever]_vars

\* one of two sessions was removed and the other is still in the mapping
C22_Witness ==
    /\ out.op = "remove_session"
    /\ out.found
    /\ out.arg \in ever
    /\ out.arg \notin DOMAIN sessions
    /\ Cardinality(DOMAIN sessions) = 1
    /\ Len(heap) = 2

\* a session that had been removed was removed again: the answer is false
C22_WitnessAgain ==
    /\ out.op = "remove_session"
    /\ ~out.found
    /\ out.arg \in ever
    /\ sessions # NoSessions

---------------------------------------------------------------------------
(* Properties of process_audio_chunk.                                      *)

\* the number of frames among results the ensemble classified as speech
SpeechCount(results) == Cardinality({ i \in 1..Len(results) : results[i].is_speech })

\* C23: a chunk of n >= 1 full frames, s of them speech, processed by a session
\* that was Speaking leaves it Silent exactly when s/n <= 0.5; then the call
\* returns one speech_end event with the call's timestamp whose duration_ms is
\* that timestamp minus the session's speech_start_time, and is not negative.
\* speech_start_time is written by a call that returns speech_start, and only
\* by such a call, so it is the time of the speech_start that began the speech.
C23_SpeakingToSilent ==
    [][/\ (out'.op = "process_audio" /\ out'.found /\ heap[out'.ref].is_speaking
           /\ Len(out'.results) >= 1) =>
              LET n == Len(out'.results)
                  s == SpeechCount(out'.results)
                  before == heap[out'.ref]
                  after == heap'[out'.ref]
              IN  /\ ~after.is_speaking <=> (2 * s <= n)
                  /\ (out'.result.event = "speech_end") <=> (2 * s <= n)
                  /\ 2 * s <= n =>
                         /\ out'.result.timestamp = now
                         /\ out'.result.duration_ms = now - before.speech_start_time
                         /\ out'.result.duration_ms >= 0
                         /\ out'.result.session_id = before.session_id
                         /\ after.speech_start_time = before.speech_start_time
                  /\ 2 * s > n =>
                         /\ out'.result.event = "vad_update"
                         /\ out'.result.is_speaking
       /\ \A k \in 1..Len(heap) :
              heap'[k].speech_start_time # heap[k].speech_start_time =>
                  /\ out'.op = "process_audio" /\ out'.ref = k
                  /\ out'.result.event = "speech_start"
                  /\ ~heap[k].is_speaking
                  /\ heap'[k].speech_start_time = out'.result.timestamp]_vars

\* a speech that began at time 0 ended at time SessionClock on a chunk of two
\* frames, one of them speech
C23_Witness ==
    /\ out.op = "process_audio" /\ out.found /\ out.was_speaking
    /\ Len(out.results) = 2 /\ SpeechCount(out.results) = 1
    /\ out.result.event = "speech_end"
    /\ out.result.duration_ms = SessionClock
    /\ ~heap[out.ref].is_speaking

\* C24: a chunk of k full frames followed by a partial frame classifies
\* exactly k frames, whatever the chunks before it ended with; a chunk without
\* a full frame leaves is_speaking, speech_start_time, total_frames,
\* speech_frames, frames and the analyzer as they were and is answered by a
\* vad_update that carries the session's is_speaking.
C24_TailDropped ==
    [][(out'.op = "process_audio" /\ out'.found /\ out'.result.error = "") =>
          LET before == heap[out'.ref]
              after == heap'[out'.ref]
              k == out'.nbytes \div before.frame_size
          IN  /\ Len(out'.results) = k
              /\ after.total_frames = before.total_frames + k
              /\ Len(after.frames) = Len(before.frames) + k
              /\ k = 0 =>
                     /\ after.is_speaking = before.is_speaking
                     /\ after.speech_start_time = before.speech_start_time
                     /\ after.total_frames = before.total_frames
                     /\ after.speech_frames = before.speech_frames
                     /\ after.frames = before.frames
                     /\ after.audio_service = before.audio_service
                     /\ out'.result.event = "vad_update"
                     /\ out'.result.is_speaking = before.is_speaking]_vars

\* a chunk of two full frames and a partial one was processed after a chunk
\* that had ended with a partial frame too
C24_Witness ==
    /\ out.op = "process_audio" /\ out.found
    /\ out.nbytes = 2 * heap[out.ref].frame_size + 100
    /\ Len(out.results) = 2
    /\ heap[out.ref].total_frames = 3

\* a chunk of a partial frame alone was processed by a session that was Speaking
C24_WitnessEmpty ==
    /\ out.op = "process_audio" /\ out.found
    /\ out.nbytes = 100
    /\ out.results = <<>>
    /\ out.was_speaking /\ heap[out.ref].is_speaking
    /\ out.result.event = "vad_update" /\ out.result.is_speaking

---------------------------------------------------------------------------
(* Properties of the ensemble decision.                                    *)

\* C25: for every frame processed while no classifier is enabled, the
\* frame's decision is the analyzer's verdict is_speech_rms, and
\* ensemble_score is 1 when that verdict is speech and 0 when it is not.
C25_FallbackScore ==
    \A i \in 1..Len(LastResults) :
        LET r == LastResults[i]
        IN  EnabledClassifiers(r.config) = {} =>
                /\ r.is_speech <=> r.is_speech_rms
                /\ r.ensemble_score[2] > 0
                /\ r.ensemble_score[1] = (IF r.is_speech_rms THEN r.ensemble_score[2] ELSE 0)

---------------------------------------------------------------------------
(* Properties of the analyzer's debounce, calibration and recalibration.   *)

\* C26: while the analyzer is Ready and its confirmed state is Silent, a
\* sample emits SPEECH_START, or makes last_is_speech true, only if it is the
\* last of consecutive_frames_threshold or more samples above the threshold
\* that were classified one after the other, with no other sample and no
\* forced recalibration in between; and no call other than such a sample
\* changes the confirmed state.
C26_Debounced ==
    /\ (obs.op = "sample" /\ obs.ready /\ ~obs.wasSpeaking) =>
           ((obs.events = <<SPEECH_START>> \/ an.last_is_speech) =>
                obs.run >= an.config.consecutive_frames_threshold)
    /\ obs.op \in {"force_recalibration", "update_config"} =>
           an.last_is_speech = obs.wasSpeaking


\* C27: every add_audio_sample call made while the analyzer is calibrating,
\* for the first time or after force_recalibration, the call that completes
\* the calibration included, returns is_speech = false, emits neither
\* SPEECH_START nor SPEECH_END, and leaves last_is_speech and the two
\* consecutive-frame counters as they were.
C27_NeutralWhileCalibrating ==
    [][(obs'.op = "sample" /\ an.is_calibrating) =>
          /\ ~obs'.ready
          /\ ~obs'.is_speech
          /\ \A i \in 1..Len(obs'.events) : obs'.events[i] \notin {SPEECH_START, SPEECH_END}
          /\ an'.last_is_speech = an.last_is_speech
          /\ an'.consecutive_speech_frames = an.consecutive_speech_frames
          /\ an'.consecutive_silence_frames = an.consecutive_silence_frames]_vars

\* a loud sample completed a calibration that had been forced while the
\* confirmed state was Speaking
C27_Witness ==
    /\ obs.op = "sample" /\ ~obs.ready
    /\ obs.level = 3000
    /\ obs.events = <<CALIBRATION_COMPLETE>>
    /\ ~obs.is_speech
    /\ an.last_is_speech
    /\ an.consecutive_speech_frames >= 2
    /\ an.last_calibration_time > 0


\* C28: after every add_audio_sample call answered while the analyzer is
\* Ready, the rolling window holds max_sample_history levels at most.
C28_WindowBounded ==
    (obs.op = "sample" /\ obs.ready) => Len(an.samples) <= an.config.max_sample_history


\* C29: an add_audio_sample call recalibrates from recent silence only when
\* the confirmed state is Silent, the sample's timestamp is more than
\* silence_duration_for_recal_ms after last_speech_time, and it is more than
\* recalibration_interval_ms after last_calibration_time; so it never
\* recalibrates while the confirmed state is Speaking.
C29_RecalibratesWhenSilent ==
    [][(obs'.op = "sample" /\ obs'.recalibrated /\ an' # an) =>
          /\ ~an.last_is_speech
          /\ obs'.timestamp - an.last_speech_time > an.config.silence_duration_for_recal_ms
          /\ obs'.timestamp - an.last_calibration_time > an.config.recalibration_interval_ms]_vars


\* C30: in every state of the analyzer, whatever samples, forced
\* recalibrations and configuration updates it has been given,
\* sensitivity_factor lies within [1.2, 2.5].
C30_SensitivityBounded ==
    /\ an.sensitivity_factor >= 1200
    /\ an.sensitivity_factor <= 2500

---------------------------------------------------------------------------
(* Properties of a change of the sample rate.                              *)

\* C21: when update_vad_config has given a session whose neural classifier is
\* enabled a sample_rate other than the one the session had, the neural
\* classifier's buffer is empty and its required window size is the one of
\* the new rate (512 samples for 16000 Hz, 256 otherwise); when the session's
\* sample_rate is what it was, the buffer and the window size are what they
\* were.
C21_RateChangeResets ==
    [][(/\ out'.op = "update_vad_config" /\ out'.found /\ out'.result.error = ""
        /\ heap'[out'.ref].config.use_silero_vad) =>
          IF heap'[out'.ref].config.sample_rate # heap[out'.ref].config.sample_rate
          THEN /\ silero'.audio_buffer = <<>>
               /\ silero'.required_samples =
                      (IF heap'[out'.ref].config.sample_rate = 16000 THEN 512 ELSE 256)
          ELSE /\ silero'.audio_buffer = silero.audio_buffer
               /\ silero'.required_samples = silero.required_samples]_vars

---------------------------------------------------------------------------
(* Properties of the adjustment of the sensitivity factor.                 *)

\* the candidate factor for a standard deviation sd and a factor f, as a
\* set: empty when there is none
Candidates(sd, f) ==
    IF sd < 100 THEN {Min(2500, (f * 1100) \div FactorScale)}
    ELSE IF sd > 1000 THEN {Max(1200, (f * 900) \div FactorScale)}
    ELSE {}

\* C31: in a silent-period recalibration the candidate factor is
\* min(2.5, factor * 1.1) when the recomputed std_dev is below 0.01,
\* max(1.2, factor * 0.9) when it is above 0.1, and there is none otherwise;
\* when there is a candidate that differs from the factor by more than 0.1,
\* it replaces the factor and exactly one THRESHOLD_CHANGED is emitted; in
\* every other case the factor stays and nothing is emitted.
C31_Hysteresis ==
    [][(obs'.op = "sample" /\ obs'.recalibrated) =>
          LET f == an.sensitivity_factor
              applied == { c \in Candidates(an'.std_dev, f) : Abs(c - f) > 100 }
          IN  /\ applied # {} => /\ an'.sensitivity_factor \in applied
                                 /\ obs'.events = <<THRESHOLD_CHANGED>>
              /\ applied = {} => /\ an'.sensitivity_factor = f
                                 /\ obs'.events = <<>>]_vars

\* a recalibration on a steady background left the factor 2.45 as it was: the
\* candidate, capped at 2.5, differs from it by 0.05 only
C31_Witness ==
    /\ obs.op = "sample" /\ obs.recalibrated
    /\ an.std_dev < 100
    /\ an.sensitivity_factor = 2450
    /\ obs.events = <<>>

\* a recalibration on a steady background raised the factor from 1.5 to 1.65
C31_WitnessTighten ==
    /\ obs.op = "sample" /\ obs.recalibrated
    /\ an.std_dev < 100
    /\ an.sensitivity_factor = 1650
    /\ obs.events = <<THRESHOLD_CHANGED>>

\* a recalibration on a volatile background lowered the factor from 2.45 to
\* 2.205
C31_WitnessLoosen ==
    /\ obs.op = "sample" /\ obs.recalibrated
    /\ an.std_dev > 1000
    /\ an.sensitivity_factor = 2205
    /\ obs.events = <<THRESHOLD_CHANGED>>

\* a recalibration on a background between the two left the factor alone
C31_WitnessNone ==
    /\ obs.op = "sample" /\ obs.recalibrated
    /\ an.std_dev >= 100 /\ an.std_dev <= 1000
    /\ obs.events = <<>>

---------------------------------------------------------------------------
(* Properties of the neural classifier's sample buffer.                    *)

\* the samples of one frame of the service's default configuration (480)
FrameSamples == frame_size_for(ServiceConfig) \div 2

\* C32: the neural classifier's buffer has a fixed capacity: whatever frames
\* of the session's frame size process_audio has been given, the buffer holds
\* no more than one required window and one frame of samples.
C32_BufferBounded ==
    BufLen(silero.audio_buffer) <= silero.required_samples + FrameSamples

C33_WitnessBuffering ==
    /\ out.op = "process_audio" /\ Len(out.results) = 1
    /\ out.results[1].silero_buffering
    /\ BufLen(silero.audio_buffer) = FrameSamples
    /\ silero.required_samples = 512

---------------------------------------------------------------------------
(* Properties of the frame history and of the frame counters.              *)

\* the session that is fed the recording
Fed == heap[sessions[uuid4(0)]]

\* C34: the frame history holds max_frames (100) frames at most, and it is
\* the most recently processed frames in the order in which they were
\* processed: once it is full, each new frame evicts the oldest one.
C34_HistoryIsRecent ==
    /\ Fed.max_frames = 100
    /\ Len(Fed.frames) = Min(Fed.total_frames, Fed.max_frames)
    /\ \A k \in 1..Len(Fed.frames) :
           Fed.frames[k].level = HistoryAudio(Fed.total_frames - Len(Fed.frames) + k).level

\* 102 frames were processed: the history holds the 3rd to the 102nd
C34_Witness ==
    /\ Fed.total_frames = 102
    /\ Len(Fed.frames) = 100
    /\ Fed.frames[1].level = HistoryAudio(3).level
    /\ Fed.frames[100].level = HistoryAudio(102).level


\* C35: a process_audio_chunk call adds to total_frames the number of full
\* frames of its chunk, one for each frame processed, and to speech_frames
\* the number of those frames whose ensemble decision is speech; no other
\* call changes either counter; so 0 <= speech_frames <= total_frames always,
\* and total_frames is the number of full frames processed since the session
\* was created (while the frame history has not filled up, its length).
C35_FrameCounters ==
    [][LET before == heap[sessions[uuid4(0)]]
           after == heap'[sessions[uuid4(0)]]
           processed == IF out'.op = "process_audio" THEN out'.results ELSE <<>>
       IN  /\ out'.op = "process_audio" =>
                  Len(processed) = out'.nbytes \div before.frame_size
           /\ after.total_frames = before.total_frames + Len(processed)
           /\ after.speech_frames = before.speech_frames + SpeechCount(processed)
           /\ after.speech_frames >= 0
           /\ after.speech_frames <= after.total_frames
           /\ Len(after.frames) = after.total_frames]_vars

\* a chunk of two full frames and a tail, one frame of the two decided
\* speech, brought the counters to 3 frames and 1 speech frame
C35_Witness ==
    /\ out.op = "process_audio" /\ Len(out.results) = 2
    /\ out.nbytes > 2 * Fed.frame_size
    /\ SpeechCount(out.results) = 1
    /\ Fed.total_frames = 3
    /\ Fed.speech_frames = 1

---------------------------------------------------------------------------
(* Properties of the session's state and events.                           *)

\* C36: the session's chunk-level state and its analyzer's debounced verdict
\* are not reconciled. After a chunk of n >= 1 full frames, is_speaking is
\* whether more than half of the frames were decided speech by the ensemble,
\* and the analyzer's last_is_speech is the vote it gave on the chunk's last
\* frame; neither is derived from the other, and states in which they
\* disagree, either way, are reached.
C36_NotReconciled ==
    [][(out'.op = "process_audio" /\ out'.found /\ out'.result.error = "") =>
          LET n == Len(out'.results)
              after == heap'[out'.ref]
          IN  IF n = 0
              THEN /\ after.is_speaking = heap[out'.ref].is_speaking
                   /\ after.audio_service = heap[out'.ref].audio_service
              ELSE /\ after.is_speaking = (2 * SpeechCount(out'.results) > n)
                   /\ after.audio_service.last_is_speech = out'.results[n].is_speech_rms]_vars

\* the analyzer has confirmed speech on the second loud frame of a chunk,
\* while the session, one frame of two decided speech, is Silent
C36_Witness ==
    /\ out.op = "process_audio" /\ Len(out.results) >= 1
    /\ heap[out.ref].audio_service.last_is_speech
    /\ ~heap[out.ref].is_speaking

\* the session is Speaking on the votes of the other classifiers, while the
\* analyzer's confirmed state is Silent
C36_WitnessReverse ==
    /\ out.op = "process_audio" /\ Len(out.results) >= 1
    /\ ~heap[out.ref].audio_service.last_is_speech
    /\ heap[out.ref].is_speaking


\* C37: a process_audio_chunk call whose payload decodes returns one event:
\* speech_start exactly when it took the session from Silent to Speaking,
\* speech_end exactly when it took it from Speaking to Silent, and otherwise
\* vad_update carrying the state, which it left as it was. No other call
\* changes is_speaking and a session starts Silent, so the speech_start and
\* speech_end events of a session alternate, a speech_start first, and the
\* session is Speaking exactly from a speech_start to the next speech_end.
C37_EventsAlternate ==
    /\ ~heap[sessions[uuid4(0)]].is_speaking
    /\ [][LET before == heap[sessions[uuid4(0)]]
              after == heap'[sessions[uuid4(0)]]
              r == out'.result
          IN  IF out'.op = "process_audio" /\ r.error = ""
              THEN /\ r.event \in {"speech_start", "speech_end", "vad_update"}
                   /\ r.event = "speech_start" <=> (~before.is_speaking /\ after.is_speaking)
                   /\ r.event = "speech_end" <=> (before.is_speaking /\ ~after.is_speaking)
                   /\ r.event = "vad_update" =>
                          /\ r.is_speaking = before.is_speaking
                          /\ after.is_speaking = before.is_speaking
              ELSE after.is_speaking = before.is_speaking]_vars

\* a session that had returned speech_start and then, at 2000 ms, speech_end
\* returns speech_start again
C37_Witness ==
    /\ out.op = "process_audio" /\ out.result.event = "speech_start"
    /\ ~out.was_speaking
    /\ Fed.is_speaking
    /\ Fed.speech_end_time = 2000
    /\ Fed.speech_start_time = 2000

---------------------------------------------------------------------------
(* Properties of the analyzer's speech events.                             *)

\* how many of the events are the event e
Emissions(events, e) == Cardinality({ i \in 1..Len(events) : events[i] = e })

\* C38: over the calls add_audio_sample, force_recalibration and
\* update_config of one analyzer, every call emits at most one of
\* SPEECH_START and SPEECH_END; SPEECH_START is emitted exactly by the calls
\* that turn last_is_speech from false to true, SPEECH_END exactly by those
\* that turn it from true to false, and no call changes it otherwise; a new
\* analyzer has last_is_speech false. So the two events alternate, a
\* SPEECH_START first, and last_is_speech tells which came last.
\* force_recalibration emits neither and leaves last_is_speech as it was.
C38_SpeechEventsAlternate ==
    /\ ~an.last_is_speech
    /\ [][now' = now =>
             LET starts == Emissions(obs'.events, SPEECH_START)
                 ends == Emissions(obs'.events, SPEECH_END)
             IN  /\ starts + ends <= 1
                 /\ starts = 1 <=> (~an.last_is_speech /\ an'.last_is_speech)
                 /\ ends = 1 <=> (an.last_is_speech /\ ~an'.last_is_speech)
                 /\ obs'.op # "sample" => starts + ends = 0]_vars

\* SPEECH_END at 6000 ms closes the speech that began before the
\* recalibration forced at 4000 ms
C38_Witness ==
    /\ obs.op = "sample" /\ obs.events = <<SPEECH_END>>
    /\ obs.wasSpeaking /\ ~an.last_is_speech
    /\ an.last_calibration_time = 4000
    /\ obs.timestamp = 6000

---------------------------------------------------------------------------
(* Properties of a session that is fed after its timeout.                  *)

\* C39: process_audio does not enforce the expiry. When the session named is
\* in the mapping and has been idle for more than session_timeout_ms, the
\* chunk is processed by that same object, whose counters go on from where
\* they were, no object is created and the mapping is not changed;
\* last_activity becomes the time of the call, so the session is no longer
\* expired, and a sweep removes the expired sessions only: it leaves this
\* one in the mapping.
C39_LateChunkRevives ==
    [][/\ (/\ out'.op = "process_audio" /\ out'.found
           /\ is_expired(heap[out'.ref], now)) =>
              /\ out'.ref = sessions[out'.arg]
              /\ sessions' = sessions
              /\ Len(heap') = Len(heap)
              /\ heap'[out'.ref].created_at = heap[out'.ref].created_at
              /\ heap'[out'.ref].total_frames =
                     heap[out'.ref].total_frames + Len(out'.results)
              /\ heap'[out'.ref].speech_frames =
                     heap[out'.ref].speech_frames + SpeechCount(out'.results)
              /\ heap'[out'.ref].last_activity = now
              /\ ~is_expired(heap'[out'.ref], now)
       /\ out'.op = "cleanup" =>
              \A sid \in DOMAIN sessions :
                  sid \in DOMAIN sessions' <=> ~is_expired(heap[sessions[sid]], now)]_vars

\* the session created at 0 was given its second frame at 300001 ms, idle
\* for more than its timeout, and the sweep that followed left it in place
C39_Witness ==
    /\ out.op = "cleanup"
    /\ now = 300001
    /\ uuid4(0) \in DOMAIN sessions
    /\ Fed.created_at = 0
    /\ Fed.total_frames = 2
    /\ Fed.last_activity = 300001

---------------------------------------------------------------------------
(* Properties of the classifiers a session holds.                          *)

\* C40: after every update_vad_config call, each classifier that the
\* session's config enables is instantiated (use_webrtc_vad implies that
\* webrtc_vad is present, use_silero_vad that silero_vad is), and a call that
\* fails has not changed the config.
C40_EnabledAreInstantiated ==
    [][(out'.op = "update_vad_config" /\ out'.found) =>
          LET before == heap[out'.ref]
              after == heap'[out'.ref]
          IN  /\ after.config.use_webrtc_vad => after.webrtc_vad.present
              /\ after.config.use_silero_vad => after.silero_vad
              /\ out'.result.error = "raised" => after.config = before.config]_vars

=========================================================================
